---- MODULE Spec2Model ----
(***************************************************************************)
(* Move generation (bot/src/moves.rs), piece mechanics                     *)
(* (libtetris/src/piece.rs) and the speculative search tree                *)
(* (bot/src/tree.rs) of cold-clear.                                        *)
(***************************************************************************)
EXTENDS Integers, Sequences, FiniteSets, TLC

VARIABLES
    board,        \* find_moves: the board snapshot
    spawned,      \* find_moves: the spawn pose
    mode,         \* find_moves: the movement mode
    locks,        \* find_moves: HashMap (sorted cells, tspin) -> Placement
    checked,      \* find_moves: HashSet of visited FallingPiece values
    check_queue,  \* find_moves: the frontier Vec<Placement>
    pc,           \* find_moves: "start", "loop", "done" or "panic"
    result,       \* find_moves: the returned placements
    popped,       \* history: the placement taken by the last loop iteration
    enqueued,     \* history: the locations ever pushed on check_queue
    pushes,       \* history: how many pushes on check_queue there have been
    capped,       \* history: a popped placement had a full input list
    tree,         \* the root Tree
    opts,         \* Options: use_hold, speculate, mode
    hash_order,   \* the order the placements of find_moves are iterated in
    outcome,      \* the last call on the root and what it returned
    extends,      \* the calls of extend so far
    adds,         \* the calls of add_next_piece so far
    died          \* history: a call on the root reported death

movesVars == <<board, spawned, mode, locks, checked, check_queue, pc, result,
               popped, enqueued, pushes, capped>>

treeVars == <<tree, opts, hash_order, outcome, extends, adds, died>>

vars == <<movesVars, treeVars>>

-----------------------------------------------------------------------------
(* libtetris/src/piece.rs: pieces, rotation states, cells *)

Pieces == {"I", "O", "T", "L", "J", "S", "Z"}

RotationStates == {"North", "South", "East", "West"}

rotation_cw(r) ==
    CASE r = "North" -> "East"
      [] r = "East"  -> "South"
      [] r = "South" -> "West"
      [] r = "West"  -> "North"

rotation_ccw(r) ==
    CASE r = "North" -> "West"
      [] r = "West"  -> "South"
      [] r = "South" -> "East"
      [] r = "East"  -> "North"

rotation_flip(r) ==
    CASE r = "North" -> "South"
      [] r = "East"  -> "West"
      [] r = "South" -> "North"
      [] r = "West"  -> "East"

\* The North rows of the CELLS table.
NorthCells(p) ==
    CASE p = "I" -> << <<-1, 0>>, <<0, 0>>, <<1, 0>>, <<2, 0>> >>
      [] p = "O" -> << <<0, 0>>, <<1, 0>>, <<0, 1>>, <<1, 1>> >>
      [] p = "T" -> << <<-1, 0>>, <<0, 0>>, <<1, 0>>, <<0, 1>> >>
      [] p = "L" -> << <<-1, 0>>, <<0, 0>>, <<1, 0>>, <<1, 1>> >>
      [] p = "J" -> << <<-1, 0>>, <<0, 0>>, <<1, 0>>, <<-1, 1>> >>
      [] p = "S" -> << <<-1, 0>>, <<0, 0>>, <<0, 1>>, <<1, 1>> >>
      [] p = "Z" -> << <<-1, 1>>, <<0, 1>>, <<0, 0>>, <<1, 0>> >>

\* gen_cells!: the four orientations derived from the North row.
gen_cells(r, c) ==
    CASE r = "North" -> <<c[1], c[2]>>
      [] r = "South" -> <<-c[1], -c[2]>>
      [] r = "East"  -> <<c[2], -c[1]>>
      [] r = "West"  -> <<-c[2], c[1]>>

\* PieceState::cells; a PieceState is [piece, rot].
PieceState_cells(kind) ==
    LET north == NorthCells(kind.piece)
    IN [i \in 1..4 |-> gen_cells(kind.rot, north[i])]

\* FallingPiece::cells; a FallingPiece is [kind, x, y, tspin].
cells(piece) ==
    LET rel == PieceState_cells(piece.kind)
    IN [i \in 1..4 |-> <<rel[i][1] + piece.x, rel[i][2] + piece.y>>]

-----------------------------------------------------------------------------
(* The board's collision interface (libtetris board module, consumed through
   obstructed() and column_heights()).  A board is a record whose field
   `cells` is the set of filled <<x, y>> and whose field `column_heights`
   is the per-column height sequence, columns 0..9 stored at 1..10. *)

BoardWidth == 10

occupied(b, x, y) ==
    \/ x < 0
    \/ x >= BoardWidth
    \/ y < 0
    \/ <<x, y>> \in b.cells

obstructed(b, piece) ==
    LET cs == cells(piece)
    IN \E i \in 1..4 : occupied(b, cs[i][1], cs[i][2])

column_height_of(cs, x) ==
    LET ys == {c[2] : c \in {d \in cs : d[1] = x}}
    IN IF ys = {} THEN 0 ELSE 1 + (CHOOSE y \in ys : \A z \in ys : z <= y)

column_heights(b) == b.column_heights

above_stack(b, piece) ==
    LET cs == cells(piece)
    IN \A i \in 1..4 : cs[i][2] >= column_heights(b)[cs[i][1] + 1]

\* The queue of a board: next_pieces is the sequence of revealed pieces,
\* hold_piece the held piece or "None", bag the identities the next unrevealed
\* piece can still have.
get_next_piece(b) ==
    IF b.next_pieces # <<>>
    THEN [ok |-> TRUE, piece |-> b.next_pieces[1], possibilities |-> {}]
    ELSE [ok |-> FALSE, piece |-> "None", possibilities |-> b.bag]

get_next_next_piece(b) ==
    IF Len(b.next_pieces) >= 2
    THEN [some |-> TRUE, piece |-> b.next_pieces[2]]
    ELSE [some |-> FALSE, piece |-> "None"]

advance_queue(b) ==
    IF b.next_pieces # <<>>
    THEN [some |-> TRUE, piece |-> b.next_pieces[1],
          board |-> [b EXCEPT !.next_pieces = Tail(@)]]
    ELSE [some |-> FALSE, piece |-> "None", board |-> b]

add_next_piece(b, p) ==
    [b EXCEPT !.bag = IF @ \ {p} = {} THEN Pieces ELSE @ \ {p},
              !.next_pieces = Append(@, p)]

\* Board::hold: the piece held before, and the board holding p.
hold(b, p) ==
    [some |-> b.hold_piece # "None", piece |-> b.hold_piece,
     board |-> [b EXCEPT !.hold_piece = p]]

\* The rows of cs that are filled from wall to wall.
full_rows(cs) ==
    {y \in {c[2] : c \in cs} : \A x \in 0..BoardWidth - 1 : <<x, y>> \in cs}

\* cs with the rows gone and what lay above them moved down.
clear_rows(cs, rows) ==
    {<<c[1], c[2] - Cardinality({r \in rows : r < c[2]})>> :
        c \in {d \in cs : d[2] \notin rows}}

with_cells(b, cs) ==
    [b EXCEPT !.cells = cs,
              !.column_heights =
                  [i \in 1..BoardWidth |-> column_height_of(cs, i - 1)]]

LockOutRow == 20

\* Board::lock_piece: the board after the piece's cells are filled and the
\* full rows cleared, and the lock result; a lock is locked out when no cell
\* of the piece lies under the lock-out row.
lock_piece_filled(b, piece, filled) ==
    [board |-> with_cells(b, clear_rows(filled, full_rows(filled))),
     lock |-> [locked_out |-> \A i \in 1..4 : cells(piece)[i][2] >= LockOutRow,
               cleared_lines |-> Cardinality(full_rows(filled)),
               tspin |-> piece.tspin]]

lock_piece(b, piece) ==
    lock_piece_filled(b, piece, b.cells \cup {cells(piece)[i] : i \in 1..4})

-----------------------------------------------------------------------------
(* The evaluator, external to the core: a raw two-axis score of a lock, a
   rational discount and a scalar projection used for ranking. *)

\* Division of i32: the quotient truncated toward zero; d > 0.
trunc_div(a, d) == IF a >= 0 THEN a \div d ELSE -((-a) \div d)

SumSeq(f) == LET RECURSIVE sum(_)
                 sum(i) == IF i = 0 THEN 0 ELSE f[i] + sum(i - 1)
             IN sum(Len(f))

\* Evaluator::evaluate
evaluate(lock, b, time, piece) ==
    [aggressive |-> 10 * lock.cleared_lines - time
                    + (IF lock.tspin = "Full" THEN 5 ELSE 0),
     defensive |-> -SumSeq(b.column_heights)]

\* SearchOptions::gamma, numerator and denominator.
gamma == <<1, 2>>

eval_times(e, k) == [aggressive |-> e.aggressive * k, defensive |-> e.defensive * k]

eval_over(e, k) ==
    [aggressive |-> trunc_div(e.aggressive, k), defensive |-> trunc_div(e.defensive, k)]

eval_plus(e, f) ==
    [aggressive |-> e.aggressive + f.aggressive, defensive |-> e.defensive + f.defensive]

\* Eval::value: the ranking scalar of an evaluation on a board of average
\* height h; defence counts for more the higher the stack.
value(e, h) == e.aggressive + (1 + h) * e.defensive

-----------------------------------------------------------------------------
(* libtetris/src/piece.rs: FallingPiece movement.  Each operation returns
   [ok |-> the bool the Rust method returns, piece |-> the piece after it]. *)

shift(piece, b, dx, dy) ==
    LET moved == [piece EXCEPT !.x = @ + dx, !.y = @ + dy]
    IN IF obstructed(b, moved)
       THEN [ok |-> FALSE, piece |-> piece]
       ELSE [ok |-> TRUE, piece |-> [moved EXCEPT !.tspin = "None"]]

MinOf(S) == CHOOSE m \in S : \A n \in S : m <= n

\* A fall of one row at most.
fall_once(piece, b, fell) ==
    LET down == [piece EXCEPT !.y = @ - 1]
    IN IF obstructed(b, down)
       THEN [ok |-> fell, piece |-> piece]
       ELSE [ok |-> TRUE, piece |-> [down EXCEPT !.tspin = "None"]]

RECURSIVE fall_loop(_, _, _)
\* The loop of sonic_drop's drop_by < 0 branch.
fall_loop(piece, b, fell) ==
    LET down == [piece EXCEPT !.y = @ - 1]
    IN IF obstructed(b, down)
       THEN [ok |-> fell, piece |-> piece]
       ELSE fall_loop([down EXCEPT !.tspin = "None"], b, TRUE)

sonic_drop(piece, b) ==
    LET cs == cells(piece)
        drop_by == MinOf({cs[i][2] - column_heights(b)[cs[i][1] + 1] : i \in 1..4})
    IN IF drop_by > 0
       THEN [ok |-> TRUE,
             piece |-> [piece EXCEPT !.tspin = "None", !.y = @ - drop_by]]
       ELSE IF drop_by < 0
       THEN fall_loop(piece, b, FALSE)
       ELSE [ok |-> FALSE, piece |-> piece]

kicks(rot_dir) ==
    CASE rot_dir = "Cw" ->
           << <<0, 0>>, <<-1, 0>>, <<0, -1>>, <<-1, -1>>, <<0, -2>>, <<-1, -2>>,
              <<-2, 0>>, <<-2, -1>>, <<-2, -2>>, <<1, 0>>, <<1, -1>>, <<0, 1>>,
              <<-1, 1>>, <<-2, 1>>, <<1, -2>>, <<2, 0>>, <<0, 2>>, <<-1, 2>>,
              <<-2, 2>>, <<2, -1>>, <<2, -2>>, <<1, 1>> >>
      [] rot_dir = "Ccw" ->
           << <<0, 0>>, <<1, 0>>, <<0, -1>>, <<1, -1>>, <<0, -2>>, <<1, -2>>,
              <<2, 0>>, <<2, -1>>, <<2, -2>>, <<-1, 0>>, <<-1, -1>>, <<0, 1>>,
              <<1, 1>>, <<2, 1>>, <<-1, -2>>, <<-2, 0>>, <<0, 2>>, <<1, 2>>,
              <<2, 2>>, <<-2, -1>>, <<-2, -2>>, <<-1, 1>> >>
      [] rot_dir = "Flip" ->
           << <<0, 0>>, <<0, -1>>, <<1, 0>>, <<-1, 0>>, <<0, -2>>, <<-1, -1>>,
              <<1, -1>>, <<1, -2>>, <<-1, -2>>, <<2, 0>>, <<-2, 0>>, <<0, 1>>,
              <<1, 1>>, <<-1, 1>>, <<2, -1>>, <<-2, -1>>, <<2, -2>>, <<-2, -2>>,
              <<2, 1>>, <<-2, 1>>, <<0, -3>>, <<0, 2>> >>

\* A test of the two sideways shifts alone.
immobile_sideways(piece, b) ==
    /\ ~shift(piece, b, -1, 0).ok
    /\ ~shift(piece, b, 1, 0).ok

\* The T-spin test of rotate (line 92): no unit shift from the accepted pose succeeds.
immobile(piece, b) ==
    /\ ~shift(piece, b, -1, 0).ok
    /\ ~shift(piece, b, 1, 0).ok
    /\ ~shift(piece, b, 0, 1).ok
    /\ ~shift(piece, b, 0, -1).ok

\* A rotation that tries the offset at i and no other.
try_kicks_one(initial, target, b, ks, i) ==
    LET cand == [initial EXCEPT !.kind = target,
                                !.x = initial.x + ks[i][1],
                                !.y = initial.y + ks[i][2]]
    IN IF ~obstructed(b, cand)
       THEN [ok |-> TRUE, piece |-> [cand EXCEPT !.tspin = "None"]]
       ELSE [ok |-> FALSE, piece |-> initial]

RECURSIVE try_kicks(_, _, _, _, _)
\* The for loop of rotate over kicks[i..22].
try_kicks(initial, target, b, ks, i) ==
    IF i > Len(ks)
    THEN [ok |-> FALSE, piece |-> initial]
    ELSE LET cand == [initial EXCEPT !.kind = target,
                                     !.x = initial.x + ks[i][1],
                                     !.y = initial.y + ks[i][2]]
         IN IF ~obstructed(b, cand)
            THEN [ok |-> TRUE,
                  piece |-> [cand EXCEPT !.tspin =
                               IF immobile(cand, b) THEN "Full" ELSE "None"]]
            ELSE try_kicks(initial, target, b, ks, i + 1)

rotate(piece, target, b, rot_dir) ==
    try_kicks(piece, target, b, kicks(rot_dir), 1)

cw(piece, b) ==
    rotate(piece, [piece.kind EXCEPT !.rot = rotation_cw(@)], b, "Cw")

ccw(piece, b) ==
    rotate(piece, [piece.kind EXCEPT !.rot = rotation_ccw(@)], b, "Ccw")

flip(piece, b) ==
    rotate(piece, [piece.kind EXCEPT !.rot = rotation_flip(@)], b, "Flip")

PieceMovements == {"Left", "Right", "Cw", "Ccw", "Flip", "SonicDrop"}

\* PieceMovement::apply
apply(input, piece, b) ==
    CASE input = "Left"      -> shift(piece, b, -1, 0)
      [] input = "Right"     -> shift(piece, b, 1, 0)
      [] input = "Ccw"       -> ccw(piece, b)
      [] input = "Cw"        -> cw(piece, b)
      [] input = "Flip"      -> flip(piece, b)
      [] input = "SonicDrop" -> sonic_drop(piece, b)

-----------------------------------------------------------------------------
(* bot/src/moves.rs: find_moves.  An InputList is [movements, time]; a
   Placement is [inputs, location].  The search state threaded through
   attempt and lock_check is the record
   [locks, checked, check_queue, panic, enqueued, pushes], the last two
   being history. *)

\* ArrayVec<[PieceMovement; 32]>
InputCapacity == 32

is_full(movements) == Len(movements) >= InputCapacity

MovementModes == {"ZeroG", "ZeroGComplete", "TwentyG", "HardDropOnly"}

fast_mode == FALSE

\* The comparator of next(): (time, then length), reversed.
sorts_before(a, b) ==
    \/ a.inputs.time > b.inputs.time
    \/ /\ a.inputs.time = b.inputs.time
       /\ Len(a.inputs.movements) > Len(b.inputs.movements)

RECURSIVE sort_from(_, _)
\* Vec::sort_by, a stable sort: q[i..] inserted one by one into the sorted prefix.
sort_from(sorted, rest) ==
    IF rest = <<>>
    THEN sorted
    ELSE LET e == Head(rest)
         IN IF sorted = <<>> \/ ~sorts_before(e, sorted[Len(sorted)])
            THEN sort_from(Append(sorted, e), Tail(rest))
            ELSE LET k == Cardinality({j \in 1..Len(sorted) :
                                         ~sorts_before(e, sorted[j])})
                 IN sort_from(SubSeq(sorted, 1, k) \o <<e>>
                                \o SubSeq(sorted, k + 1, Len(sorted)),
                              Tail(rest))

sort_by(q) == sort_from(<<>>, q)

\* next(): sort, then pop the last element.  Only called on a non-empty queue
\* here; the empty case is the loop's exit.
next(q) ==
    LET s == sort_by(q)
    IN [item |-> s[Len(s)], q |-> SubSeq(s, 1, Len(s) - 1)]

CellLess(a, b) == a[1] < b[1] \/ (a[1] = b[1] /\ a[2] < b[2])

\* cells.sort() on the 4-cell array.
\* A lock key built without line 144's sort.
unsorted_cells(piece) == cells(piece)

sorted_cells(piece) == SortSeq(cells(piece), CellLess)

lock_key(piece) == <<sorted_cells(piece), piece.tspin>>

\* Rows at or above this index are the discarded spawn buffer (line 141).
BufferRow == 23

\* A lock check that keeps a piece whose lowest cell is on the buffer row.
lock_check_on_buffer_row(piece, st, moves) ==
    IF \A i \in 1..4 : cells(piece)[i][2] > BufferRow
    THEN st
    ELSE IF lock_key(piece) \in DOMAIN st.locks
    THEN st
    ELSE [st EXCEPT !.locks = @ @@ (lock_key(piece) :>
                                      [inputs |-> moves, location |-> piece])]

lock_check(piece, st, moves) ==
    LET cs == cells(piece)
    IN IF \A i \in 1..4 : cs[i][2] >= BufferRow
       THEN st
       ELSE IF lock_key(piece) \in DOMAIN st.locks
       THEN st
       ELSE [st EXCEPT !.locks = @ @@ (lock_key(piece) :>
                                         [inputs |-> moves, location |-> piece])]

RECURSIVE das_loop_unrecorded(_, _, _, _, _)
\* A DAS loop that charges the repeats but leaves line 186's push out.
das_loop_unrecorded(b, moves, piece, input, repeat) ==
    IF repeat /\ ~is_full(moves.movements) /\ apply(input, piece, b).ok
    THEN das_loop_unrecorded(b, [moves EXCEPT !.time = @ + 2],
                             apply(input, piece, b).piece, input, repeat)
    ELSE [moves |-> moves, piece |-> piece]

RECURSIVE das_loop(_, _, _, _, _)
\* The while loop of attempt (line 184).
das_loop(b, moves, piece, input, repeat) ==
    IF repeat /\ ~is_full(moves.movements) /\ apply(input, piece, b).ok
    THEN das_loop(b,
                  [movements |-> Append(moves.movements, input),
                   time |-> moves.time + 2],
                  apply(input, piece, b).piece, input, repeat)
    ELSE [moves |-> moves, piece |-> piece]

\* A charge of one tick for every input, a sonic drop included.
move_time_flat(moves, input, fallen) ==
    moves.time + 1
    + (IF moves.movements # <<>> /\ moves.movements[Len(moves.movements)] = input
       THEN 1
       ELSE 0)

\* Lines 166-182: the time of the list after an input that made the piece
\* fall by `fallen` rows.
move_time(moves, input, fallen) ==
    (IF input = "SonicDrop" THEN moves.time + 2 * fallen ELSE moves.time + 1)
    + (IF moves.movements # <<>> /\ moves.movements[Len(moves.movements)] = input
       THEN 1
       ELSE 0)

\* An insertion that pushes in every mode, line 200's test left out.
attempt_insert_always(st, md, input, moves, dropped) ==
    IF dropped.piece \in st.checked
    THEN st
    ELSE [st EXCEPT
            !.checked = @ \cup {dropped.piece},
            !.check_queue =
                Append(@, [inputs |->
                              IF md = "TwentyG" /\ dropped.ok
                                 /\ ~is_full(moves.movements)
                              THEN [moves EXCEPT
                                      !.movements = Append(@, "SonicDrop")]
                              ELSE moves,
                           location |-> dropped.piece]),
            !.enqueued = @ \cup {dropped.piece},
            !.pushes = @ + 1]

\* Lines 194-203; dropped is the outcome of line 193's sonic drop.
attempt_insert(st, md, input, moves, dropped) ==
    IF dropped.piece \in st.checked
    THEN st
    ELSE IF ~(md = "HardDropOnly" /\ input = "SonicDrop")
    THEN [st EXCEPT
            !.checked = @ \cup {dropped.piece},
            !.check_queue =
                Append(@, [inputs |->
                              IF md = "TwentyG" /\ dropped.ok
                                 /\ ~is_full(moves.movements)
                              THEN [moves EXCEPT
                                      !.movements = Append(@, "SonicDrop")]
                              ELSE moves,
                           location |-> dropped.piece]),
            !.enqueued = @ \cup {dropped.piece},
            !.pushes = @ + 1]
    ELSE [st EXCEPT !.checked = @ \cup {dropped.piece}]

\* A settling without line 193's forced drop.
attempt_settle_floating(b, st, md, input, d) ==
    attempt_insert(st, md, input, d.moves, [ok |-> FALSE, piece |-> d.piece])

\* Lines 189-204; d is the outcome of the DAS loop.
attempt_settle(b, st, md, input, d) ==
    IF ~fast_mode \/ d.piece.tspin # "None" \/ ~above_stack(b, d.piece)
    THEN attempt_insert(st, md, input, d.moves,
                        IF md = "TwentyG"
                        THEN sonic_drop(d.piece, b)
                        ELSE [ok |-> FALSE, piece |-> d.piece])
    ELSE st

\* Lines 167-205; orig_y is the row before the input, r the outcome of
\* applying it.  A push on a full list (line 183) is a panic.
attempt_applied(b, moves, st, md, input, repeat, orig_y, r) ==
    IF st.panic \/ ~r.ok
    THEN st
    ELSE IF is_full(moves.movements)
    THEN [st EXCEPT !.panic = TRUE]
    ELSE attempt_settle(b, st, md, input,
                        das_loop(b,
                                 [movements |-> Append(moves.movements, input),
                                  time |-> move_time(moves, input,
                                                     orig_y - r.piece.y)],
                                 r.piece, input, repeat))

attempt(b, moves, piece, st, md, input, repeat) ==
    attempt_applied(b, moves, st, md, input, repeat, piece.y,
                    apply(input, piece, b))

\* The set-up without line 49's checked.insert(spawned).
find_moves_init_unchecked(b, sp, md) ==
    LET sp0 == IF md = "TwentyG" THEN sonic_drop(sp, b).piece ELSE sp
    IN [locks |-> <<>>,
        checked |-> {},
        check_queue |-> <<[inputs |-> [movements |-> IF md = "TwentyG"
                                                     THEN <<"SonicDrop">> ELSE <<>>,
                                       time |-> 0],
                           location |-> sp0]>>,
        enqueued |-> {sp0},
        pushes |-> 1,
        panic |-> FALSE]

\* Lines 44-53: the state before the first loop iteration.
find_moves_init(b, sp, md) ==
    LET sp0 == IF md = "TwentyG" THEN sonic_drop(sp, b).piece ELSE sp
        first == [inputs |-> [movements |-> IF md = "TwentyG"
                                            THEN <<"SonicDrop">> ELSE <<>>,
                              time |-> 0],
                  location |-> sp0]
    IN [locks |-> <<>>,
        checked |-> {sp0},
        check_queue |-> <<first>>,
        enqueued |-> {sp0},
        pushes |-> 1,
        panic |-> FALSE]

\* The attempts of one iteration with line 119's sonic drop left out.
attempt_order_no_drop(md) ==
    << <<"Left", FALSE>>, <<"Right", FALSE>>, <<"Cw", FALSE>>, <<"Ccw", FALSE>>,
       <<"Flip", FALSE>> >>
    \o (IF md = "ZeroG" THEN << <<"Left", TRUE>>, <<"Right", TRUE>> >> ELSE <<>>)

\* The attempts of one iteration in source order (lines 68-124), each an
\* <<input, repeat>> pair; the two held-direction ones only in ZeroG.
attempt_order(md) ==
    << <<"Left", FALSE>>, <<"Right", FALSE>>, <<"Cw", FALSE>>, <<"Ccw", FALSE>>,
       <<"Flip", FALSE>> >>
    \o (IF md = "ZeroG" THEN << <<"Left", TRUE>>, <<"Right", TRUE>> >> ELSE <<>>)
    \o << <<"SonicDrop", FALSE>> >>

RECURSIVE attempts(_, _, _, _, _, _)
attempts(b, moves, position, st, md, todo) ==
    IF todo = <<>>
    THEN st
    ELSE attempts(b, moves, position,
                  attempt(b, moves, position, st, md, todo[1][1], todo[1][2]),
                  md, Tail(todo))

\* An iteration without line 67's is_full test.
loop_body_unguarded(b, md, st0, placement) ==
    LET moves == placement.inputs
        position == placement.location
        st1 == attempts(b, moves, position, st0, md, attempt_order(md))
    IN IF st1.panic
       THEN st1
       ELSE lock_check(sonic_drop(position, b).piece, st1, moves)

\* One iteration of the while loop (lines 64-130) on the popped placement.
loop_body(b, md, st0, placement) ==
    LET moves == placement.inputs
        position == placement.location
        st1 == IF ~is_full(moves.movements)
               THEN attempts(b, moves, position, st0, md, attempt_order(md))
               ELSE st0
    IN IF st1.panic
       THEN st1
       ELSE lock_check(sonic_drop(position, b).piece, st1, moves)

\* locks.into_iter().map(|(_, v)| v).collect(): the map's values.
collect(lk) == {lk[k] : k \in DOMAIN lk}

-----------------------------------------------------------------------------
(* libtetris/src/piece.rs: SpawnRule::spawn.  Returns [some, piece]. *)

SpawnRules == {"Row19Or20", "Row21AndFall", "Asc"}

spawn_at(p, y) == [kind |-> [piece |-> p, rot |-> "North"],
                   x |-> 4, y |-> y, tspin |-> "None"]

NoPiece == [some |-> FALSE, piece |-> spawn_at("I", 0)]

SpawnRule_spawn(rule, p, b) ==
    CASE rule = "Row19Or20" ->
           IF ~obstructed(b, spawn_at(p, 19))
           THEN [some |-> TRUE, piece |-> spawn_at(p, 19)]
           ELSE IF ~obstructed(b, spawn_at(p, 20))
           THEN [some |-> TRUE, piece |-> spawn_at(p, 20)]
           ELSE NoPiece
      [] rule = "Row21AndFall" ->
           IF ~obstructed(b, spawn_at(p, 21))
           THEN [some |-> TRUE, piece |-> shift(spawn_at(p, 21), b, 0, -1).piece]
           ELSE NoPiece
      [] rule = "Asc" ->
           IF ~obstructed(b, spawn_at(p, 22))
           THEN [some |-> TRUE, piece |-> spawn_at(p, 22)]
           ELSE NoPiece

-----------------------------------------------------------------------------
(* The boards find_moves is run on. *)

\* A board with an empty queue, nothing held and a full bag.
MkBoard(cs) ==
    [cells |-> cs,
     column_heights |-> [i \in 1..BoardWidth |-> column_height_of(cs, i - 1)],
     next_pieces |-> <<>>,
     hold_piece |-> "None",
     bag |-> Pieces]

\* Columns xs filled solid on rows lo..hi.
Block(xs, lo, hi) == {<<x, y>> : x \in xs, y \in lo..hi}

EmptyBoard == MkBoard({})

\* A four-column well (columns 3..6) holding a T-spin double slot under an
\* overhang at its left side.
SlotBoard ==
    MkBoard(Block(0..2, 0, 25) \cup Block(7..9, 0, 25)
            \cup {<<3, 0>>, <<5, 0>>, <<6, 0>>, <<6, 1>>, <<3, 2>>})

\* Shelves two rows thick with a two-column gap at alternating ends: a piece
\* has to walk each corridor from end to end to get one level down.
ShelfBoard ==
    MkBoard(Block(2..9, 14, 15) \cup Block(0..7, 10, 11)
            \cup Block(2..9, 6, 7) \cup Block(0..7, 2, 3))

\* A stack that reaches the spawn rows at both sides.
HighBoard ==
    MkBoard((Block(0..1, 0, 22) \cup Block(2..2, 0, 20) \cup Block(3..6, 0, 17)
             \cup Block(7..7, 0, 19) \cup Block(8..9, 0, 21))
            \ (Block(3..3, 0, 16) \cup {<<6, 17>>}))

Boards == {EmptyBoard, SlotBoard, ShelfBoard, HighBoard}

\* The spawn rules tried on a board: they differ only in the spawn row, which
\* matters where the stack reaches the spawn rows.
RulesFor(b) == IF b = HighBoard THEN SpawnRules ELSE {"Row19Or20"}

\* The pieces searched on each board: the long searches of the shelves are
\* run for two pieces only.
PiecesFor(b) == IF b = ShelfBoard THEN {"I", "J"} ELSE Pieces

-----------------------------------------------------------------------------
(* find_moves as a state machine: one action per loop iteration. *)

\* The tree while find_moves is run on its own.
TreeIdle ==
    /\ tree = <<>>
    /\ opts = <<>>
    /\ hash_order = "asc"
    /\ outcome = <<>>
    /\ extends = 0
    /\ adds = 0
    /\ died = FALSE

NoPlacement == [inputs |-> [movements |-> <<>>, time |-> 0],
                location |-> spawn_at("I", 0)]

SearchState == [locks |-> locks, checked |-> checked, check_queue |-> check_queue,
                panic |-> FALSE, enqueued |-> enqueued, pushes |-> pushes]

MovesInit ==
    /\ board \in Boards
    /\ mode \in MovementModes
    /\ \E rule \in RulesFor(board), p \in PiecesFor(board) :
          /\ SpawnRule_spawn(rule, p, board).some
          /\ spawned = SpawnRule_spawn(rule, p, board).piece
    /\ locks = <<>>
    /\ checked = {}
    /\ check_queue = <<>>
    /\ popped = NoPlacement
    /\ enqueued = {}
    /\ pushes = 0
    /\ capped = FALSE
    /\ result = {}
    /\ pc = "start"
    /\ TreeIdle

\* Lines 38-53.
FindMovesStart ==
    /\ pc = "start"
    /\ LET st == find_moves_init(board, spawned, mode)
       IN /\ locks' = st.locks
          /\ checked' = st.checked
          /\ check_queue' = st.check_queue
          /\ enqueued' = st.enqueued
          /\ pushes' = st.pushes
    /\ pc' = "loop"
    /\ UNCHANGED <<board, spawned, mode, popped, result, capped, treeVars>>

\* Lines 64-130: next() returned Some(placement).
FindMovesIterate ==
    /\ pc = "loop"
    /\ check_queue # <<>>
    /\ LET n == next(check_queue)
           st == loop_body(board, mode,
                           [SearchState EXCEPT !.check_queue = n.q], n.item)
       IN /\ popped' = n.item
          /\ locks' = st.locks
          /\ checked' = st.checked
          /\ check_queue' = st.check_queue
          /\ enqueued' = st.enqueued
          /\ pushes' = st.pushes
          /\ capped' = (capped \/ is_full(n.item.inputs.movements))
          /\ pc' = IF st.panic THEN "panic" ELSE "loop"
    /\ UNCHANGED <<board, spawned, mode, result, treeVars>>

\* Line 132: next() returned None.
FindMovesReturn ==
    /\ pc = "loop"
    /\ check_queue = <<>>
    /\ result' = collect(locks)
    /\ pc' = "done"
    /\ UNCHANGED <<board, spawned, mode, locks, checked, check_queue, popped,
                   enqueued, pushes, capped, treeVars>>

MovesNext == FindMovesStart \/ FindMovesIterate \/ FindMovesReturn

MovesSpec == MovesInit /\ [][MovesNext]_vars

-----------------------------------------------------------------------------
(* bot/src/tree.rs.  A Tree is the record
   [board, raw_eval, evaluation, depth, child_nodes, kind, known, unknown]:
   kind is "None" (not expanded), "Known" or "Unknown"; known is the child
   list of TreeKind::Known, unknown the Speculation of TreeKind::Unknown, a
   function from pieces to [some, list].  A Child is [hold, mv, lock, tree].
   An operation that can panic returns a record with a panic field.  The
   outcome of an expansion is [tree, er, panic, path]: path is history, the
   selections made from the node down, each [which, index, died]: the list
   selected from ("Known" or the piece of the Speculation), the position
   sampled in the sorted list and whether that child reported death. *)

\* find_moves as a function: the loop run to its end.
RECURSIVE find_moves_loop(_, _, _)
find_moves_popped(b, md, st, n) ==
    find_moves_loop(b, md,
                    loop_body(b, md, [st EXCEPT !.check_queue = n.q], n.item))

find_moves_loop(b, md, st) ==
    IF st.check_queue = <<>> \/ st.panic
    THEN st.locks
    ELSE find_moves_popped(b, md, st, next(st.check_queue))

find_moves(b, sp, md) == collect(find_moves_loop(b, md, find_moves_init(b, sp, md)))

\* The order in which the values of the HashMap are iterated is not fixed by
\* the program: the placements are taken by ascending or by descending pose.
IterationOrders == {"asc", "desc"}

pose_key(l) ==
    << l.x, l.y,
       CASE l.kind.rot = "North" -> 0 [] l.kind.rot = "South" -> 1
         [] l.kind.rot = "East" -> 2 [] l.kind.rot = "West" -> 3,
       IF l.tspin = "Full" THEN 1 ELSE 0 >>

key_less(a, b) ==
    \E i \in 1..4 : a[i] < b[i] /\ \A j \in 1..i - 1 : a[j] = b[j]

comes_before(p, q, ord) ==
    IF ord = "asc"
    THEN key_less(pose_key(p.location), pose_key(q.location))
    ELSE key_less(pose_key(q.location), pose_key(p.location))

RECURSIVE into_iter(_, _)
into_iter(S, ord) ==
    IF S = {}
    THEN <<>>
    ELSE LET first == CHOOSE p \in S : \A q \in S \ {p} : comes_before(p, q, ord)
         IN <<first>> \o into_iter(S \ {first}, ord)

\* FallingPiece::spawn, the spawn of the game the tree plays.
FallingPiece_spawn(p, b) == SpawnRule_spawn("Row19Or20", p, b)

ZeroEval == [aggressive |-> 0, defensive |-> 0]

NoSpeculation == [p \in Pieces |-> [some |-> FALSE, list |-> <<>>]]

Tree_with(b, raw) ==
    [board |-> b, raw_eval |-> raw, evaluation |-> raw, depth |-> 0,
     child_nodes |-> 0, kind |-> "None", known |-> <<>>,
     unknown |-> NoSpeculation]

starting_board(b) == Tree_with(b, ZeroEval)

Tree_new(b, lock, time, piece) ==
    Tree_with(b, evaluate(lock, b, time, piece))

\* Lines 244-252 and 262-270 for one placement; lk is lock_piece's outcome.
make_child(mv, piece, held, lk) ==
    [hold |-> held, mv |-> mv, lock |-> lk.lock,
     tree |-> Tree_new(lk.board, lk.lock, mv.inputs.time, piece)]

\* A child per placement, locked out or not.
children_for_all(b, found, piece, held) ==
    [i \in 1..Len(found) |->
        make_child(found[i], piece, held, lock_piece(b, found[i].location))]

\* The for loops of new_children: a child per placement that is not locked out.
children_for(b, found, piece, held) ==
    SelectSeq([i \in 1..Len(found) |->
                  make_child(found[i], piece, held,
                             lock_piece(b, found[i].location))],
              LAMBDA c : ~c.lock.locked_out)

\* Lines 243-253 and 261-271: the children of one piece to place, a job
\* [board, piece, held]; none when the piece cannot spawn.
piece_children(job, o, ord) ==
    IF ~FallingPiece_spawn(job.piece, job.board).some
    THEN <<>>
    ELSE children_for(job.board,
                      into_iter(find_moves(job.board,
                                           FallingPiece_spawn(job.piece, job.board).piece,
                                           o.mode),
                                ord),
                      job.piece, job.held)

RECURSIVE concat(_, _)
concat(lists, i) ==
    IF i > Len(lists) THEN <<>> ELSE lists[i] \o concat(lists, i + 1)

\* Lines 242-276 once the jobs are known: the next piece, then the hold piece.
new_children_of(jobs, o, ord) ==
    [children |-> concat([i \in 1..Len(jobs) |-> piece_children(jobs[i], o, ord)], 1),
     panic |-> FALSE]

\* Lines 255-259; hd is the piece that comes out of the hold, [some, piece,
\* board], none being the panic of line 257's unwrap.
new_children_held(b, nxt, hd, o, ord) ==
    IF ~hd.some
    THEN [children |-> <<>>, panic |-> TRUE]
    ELSE new_children_of(
             <<[board |-> b, piece |-> nxt, held |-> FALSE]>>
             \o (IF hd.piece # nxt
                 THEN <<[board |-> hd.board, piece |-> hd.piece, held |-> TRUE]>>
                 ELSE <<>>),
             o, ord)

\* Line 257: board.hold(next).unwrap_or_else(|| board.advance_queue().unwrap())
swap_hold(h) == IF h.some THEN h ELSE advance_queue(h.board)

\* Lines 236-276; adv is the outcome of board.advance_queue().
new_children_next(adv, o, ord) ==
    IF ~adv.some
    THEN [children |-> <<>>, panic |-> TRUE]
    ELSE IF ~FallingPiece_spawn(adv.piece, adv.board).some
    THEN [children |-> <<>>, panic |-> FALSE]
    ELSE new_children_held(adv.board, adv.piece,
                           IF o.use_hold
                           THEN swap_hold(hold(adv.board, adv.piece))
                           ELSE [some |-> TRUE, piece |-> adv.piece,
                                 board |-> adv.board],
                           o, ord)

new_children(b, o, ord) == new_children_next(advance_queue(b), o, ord)

\* A fold that keeps what it has.
eval_first(e, f) == e

eval_max(e, f) ==
    [aggressive |-> IF e.aggressive >= f.aggressive THEN e.aggressive ELSE f.aggressive,
     defensive |-> IF e.defensive >= f.defensive THEN e.defensive ELSE f.defensive]

RECURSIVE fold_max(_, _, _)
fold_max(children, i, acc) ==
    IF i > Len(children)
    THEN acc
    ELSE fold_max(children, i + 1, eval_max(acc, children[i].tree.evaluation))

\* best_eval: [some, eval].
best_eval(children) ==
    IF children = <<>>
    THEN [some |-> FALSE, eval |-> ZeroEval]
    ELSE [some |-> TRUE, eval |-> fold_max(children, 2, children[1].tree.evaluation)]

\* The pieces in the order of the enum, the order an EnumMap is iterated in.
PieceOrder == <<"I", "O", "T", "L", "J", "S", "Z">>

RECURSIVE speculation_fold(_, _, _)
\* The for loop of lines 323-332: acc is [sum, n, deaths].
speculation_fold(speculation, i, acc) ==
    IF i > Len(PieceOrder)
    THEN acc
    ELSE IF ~speculation[PieceOrder[i]].some
    THEN speculation_fold(speculation, i + 1, acc)
    ELSE IF speculation[PieceOrder[i]].list = <<>>
    THEN speculation_fold(speculation, i + 1, [acc EXCEPT !.deaths = @ + 1])
    ELSE speculation_fold(speculation, i + 1,
             [acc EXCEPT !.n = @ + 1,
                         !.sum = eval_plus(@, best_eval(speculation[PieceOrder[i]].list).eval)])

\* An average over the live lists alone, lines 334-335 left out.
speculation_average_live(acc) ==
    IF acc.n = 0
    THEN [ok |-> FALSE, eval |-> ZeroEval]
    ELSE [ok |-> TRUE, eval |-> eval_over(acc.sum, acc.n)]

\* Lines 333-336; a division by n = 0 is a panic.
speculation_average(acc) ==
    IF acc.n = 0
    THEN [ok |-> FALSE, eval |-> ZeroEval]
    ELSE [ok |-> TRUE,
          eval |-> eval_over(
                      eval_plus(acc.sum,
                                eval_times(eval_plus(eval_over(acc.sum, acc.n),
                                                     [aggressive |-> -1000,
                                                      defensive |-> -1000]),
                                           acc.deaths)),
                      acc.n + acc.deaths)]

\* TreeKind::evaluation: [ok, eval]; unwrapping None is a panic.
TreeKind_evaluation(t) ==
    IF t.kind = "Known"
    THEN [ok |-> best_eval(t.known).some, eval |-> best_eval(t.known).eval]
    ELSE speculation_average(
             speculation_fold(t.unknown, 1, [sum |-> ZeroEval, n |-> 0, deaths |-> 0]))

\* tk.evaluation() * gamma.0 / gamma.1 + raw_eval
discounted(e, raw) == eval_plus(eval_over(eval_times(e, gamma[1]), gamma[2]), raw)

\* The node with its evaluation set from its children, under the result er.
with_evaluation(t, er, path) ==
    [tree |-> [t EXCEPT !.evaluation =
                          discounted(TreeKind_evaluation(t).eval, t.raw_eval)],
     er |-> er,
     panic |-> ~TreeKind_evaluation(t).ok,
     path |-> path]

ExpandResult(is_death, depth, new_nodes) ==
    [is_death |-> is_death, depth |-> depth, new_nodes |-> new_nodes]

returned(t, er) == [tree |-> t, er |-> er, panic |-> FALSE, path |-> <<>>]

panicked(t) ==
    [tree |-> t, er |-> ExpandResult(FALSE, 0, 0), panic |-> TRUE, path |-> <<>>]

\* Lines 141-160; nc is the outcome of new_children.
known_from(t, nc) ==
    IF nc.panic
    THEN panicked(t)
    ELSE IF nc.children = <<>>
    THEN returned(t, ExpandResult(TRUE, 0, 0))
    ELSE with_evaluation([t EXCEPT !.depth = 1,
                                   !.child_nodes = Len(nc.children),
                                   !.kind = "Known",
                                   !.known = nc.children],
                         ExpandResult(FALSE, 1, Len(nc.children)), <<>>)

\* Lines 187-194: the identities the piece after the queue can have.
possibilities_of(b) ==
    IF get_next_piece(b).ok
    THEN get_next_piece(advance_queue(b).board).possibilities
    ELSE get_next_piece(b).possibilities

\* Line 191: unwrap_err panics when the piece after next is known.
possibilities_known(b) ==
    get_next_piece(b).ok /\ get_next_piece(advance_queue(b).board).ok

\* Lines 206-224; made is a function from the possible pieces to the outcome
\* of new_children for it.
speculated(t, poss, made, total) ==
    IF \E p \in poss : made[p].panic
    THEN panicked(t)
    ELSE IF total = 0
    THEN returned([t EXCEPT !.child_nodes = total], ExpandResult(TRUE, 0, 0))
    ELSE with_evaluation(
             [t EXCEPT !.child_nodes = total,
                       !.kind = "Unknown",
                       !.unknown = [p \in Pieces |->
                                       IF p \in poss
                                       THEN [some |-> TRUE, list |-> made[p].children]
                                       ELSE [some |-> FALSE, list |-> <<>>]],
                       !.depth = 1],
             ExpandResult(FALSE, 1, total), <<>>)

RECURSIVE sum_made(_, _, _)
sum_made(poss, made, i) ==
    IF i > Len(PieceOrder)
    THEN 0
    ELSE (IF PieceOrder[i] \in poss THEN Len(made[PieceOrder[i]].children) ELSE 0)
         + sum_made(poss, made, i + 1)

speculate_made(t, poss, made) ==
    speculated(t, poss, made, t.child_nodes + sum_made(poss, made, 1))

\* Lines 130-132 and 162: the node has to speculate.
must_speculate(t, o) ==
    IF get_next_piece(t.board).ok
    THEN o.use_hold /\ t.board.hold_piece = "None"
         /\ ~get_next_next_piece(t.board).some
    ELSE TRUE

\* An assertion that never fails.
assertion_never(t, o) == FALSE

\* Lines 164-168: the assertion of the branch without a next piece fails.
assertion_fails(t, o) ==
    ~get_next_piece(t.board).ok /\ ~(o.use_hold /\ t.board.hold_piece # "None")

\* The boards children are generated from: the node's own, or with function
\* argument p the board of line 198 for each possible piece p.
boards_of(t, o) ==
    IF must_speculate(t, o)
    THEN [p \in possibilities_of(t.board) |-> add_next_piece(t.board, p)]
    ELSE [p \in {"next"} |-> t.board]

\* Tree::expand on a node that is not expanded (lines 129-171) and
\* Tree::speculate; made[p] is the outcome of new_children on boards_of[p].
expand_made(t, o, made) ==
    IF ~must_speculate(t, o)
    THEN known_from(t, made["next"])
    ELSE speculate_made(t, possibilities_of(t.board), made)

Tree_expand_none(t, o, ord) ==
    IF assertion_fails(t, o)
    THEN panicked(t)
    ELSE IF must_speculate(t, o) /\ ~o.speculate
    THEN returned(t, ExpandResult(FALSE, 0, 0))
    ELSE IF must_speculate(t, o) /\ possibilities_known(t.board)
    THEN panicked(t)
    ELSE expand_made(t, o, [p \in DOMAIN boards_of(t, o) |->
                               new_children(boards_of(t, o)[p], o, ord)])

\* The key of sort_by_key (lines 387-390): minus the ranking value.
child_value(c) ==
    value(c.tree.evaluation, SumSeq(c.tree.board.column_heights) \div 10)

RECURSIVE sort_children_from(_, _)
\* Stable insertion of rest into sorted, best value first.
sort_children_from(sorted, rest) ==
    IF rest = <<>>
    THEN sorted
    ELSE sort_children_from(
             SelectSeq(sorted, LAMBDA c : child_value(c) >= child_value(rest[1]))
             \o <<rest[1]>>
             \o SelectSeq(sorted, LAMBDA c : child_value(c) < child_value(rest[1])),
             Tail(rest))

sort_by_key(children) == sort_children_from(<<>>, children)

\* A weight without line 402's + 1.
weight_unshifted(sorted, i) ==
    ((child_value(sorted[i]) - child_value(sorted[Len(sorted)]))
     * (child_value(sorted[i]) - child_value(sorted[Len(sorted)]))) \div i

\* Lines 392-404: the weight of the child at 0-based position i - 1.
weight(sorted, i) ==
    ((child_value(sorted[i]) - child_value(sorted[Len(sorted)]))
     * (child_value(sorted[i]) - child_value(sorted[Len(sorted)]))) \div i + 1

\* The indices WeightedIndex can sample: those of positive weight.
sampled(sorted) == {i \in 1..Len(sorted) : weight(sorted, i) > 0}

\* A removal that takes the children after the index along.
remove_from(list, index) == SubSeq(list, 1, index - 1)

remove(list, index) ==
    SubSeq(list, 1, index - 1) \o SubSeq(list, index + 1, Len(list))

\* The lists of t with `list` in the place of the one being expanded: the
\* list of Known when which is "Known", else that of the piece which.
with_list(t, which, list) ==
    IF which = "Known"
    THEN [t EXCEPT !.known = list]
    ELSE [t EXCEPT !.unknown[which].list = list]

no_child_left(t) ==
    IF t.kind = "Known"
    THEN t.known = <<>>
    ELSE \A p \in Pieces : ~t.unknown[p].some \/ t.unknown[p].list = <<>>

\* A parent that reports death whenever the selected child did.
child_died_always(t, er, path) ==
    [tree |-> t,
     er |-> ExpandResult(TRUE, er.depth + 1, er.new_nodes),
     panic |-> FALSE,
     path |-> path]

\* Lines 409-432, the selected child having reported death.
child_died(t, er, path) ==
    [tree |-> t,
     er |-> ExpandResult(no_child_left(t), er.depth + 1, er.new_nodes),
     panic |-> FALSE,
     path |-> path]

\* Lines 408-438; co is the outcome of expanding sorted[index].tree.
child_expanded(t, which, sorted, index, co) ==
    IF co.panic
    THEN [panicked(t) EXCEPT
             !.path = <<[which |-> which, index |-> index, died |-> FALSE]>>
                      \o co.path]
    ELSE IF co.er.is_death
    THEN child_died(with_list(t, which, remove(sorted, index)), co.er,
                    <<[which |-> which, index |-> index, died |-> TRUE]>>
                    \o co.path)
    ELSE [tree |-> with_list(t, which, [sorted EXCEPT ![index].tree = co.tree]),
          er |-> ExpandResult(co.er.is_death, co.er.depth + 1, co.er.new_nodes),
          panic |-> FALSE,
          path |-> <<[which |-> which, index |-> index, died |-> FALSE]>>
                   \o co.path]

\* A node that keeps the evaluation it had before its TreeKind was expanded.
Tree_expanded_stale(out) ==
    IF out.panic \/ out.er.is_death
    THEN out
    ELSE [out EXCEPT !.tree.depth = IF @ >= out.er.depth THEN @ ELSE out.er.depth,
                     !.tree.child_nodes = @ + out.er.new_nodes]

\* A Speculation that turns Known, with the list it selected from, as soon
\* as it is expanded.
Tree_expanded_collapsing(out) ==
    IF out.panic \/ out.er.is_death
    THEN out
    ELSE with_evaluation(
             [out.tree EXCEPT !.depth = IF @ >= out.er.depth THEN @ ELSE out.er.depth,
                              !.child_nodes = @ + out.er.new_nodes,
                              !.kind = "Known",
                              !.known = IF out.tree.kind = "Known"
                                        THEN @
                                        ELSE out.tree.unknown[out.path[1].which].list,
                              !.unknown = NoSpeculation],
             out.er, out.path)

\* Lines 117-127: the node after its TreeKind was expanded with outcome out.
Tree_expanded(out) ==
    IF out.panic \/ out.er.is_death
    THEN out
    ELSE with_evaluation(
             [out.tree EXCEPT !.depth = IF @ >= out.er.depth THEN @ ELSE out.er.depth,
                              !.child_nodes = @ + out.er.new_nodes],
             out.er, out.path)

\* The pieces line 376 chooses from.
live_pieces(t) ==
    {p \in Pieces : t.unknown[p].some /\ t.unknown[p].list # <<>>}

RECURSIVE Tree_expand(_, _, _)
\* Lines 392-438 on the sorted list: the set of possible outcomes.
expand_sorted(t, which, sorted, o, ord) ==
    UNION {{child_expanded(t, which, sorted, index, co) :
               co \in Tree_expand(sorted[index].tree, o, ord)} :
           index \in sampled(sorted)}

\* Lines 379-438 on the list to_expand.
expand_list(t, which, to_expand, o, ord) ==
    IF to_expand = <<>>
    THEN {returned(t, ExpandResult(TRUE, 0, 0))}
    ELSE expand_sorted(t, which, sort_by_key(to_expand), o, ord)

\* TreeKind::expand: the set of possible outcomes [tree, er, panic]; choosing
\* from no piece (line 376) is a panic.
TreeKind_expand(t, o, ord) ==
    IF t.kind = "Known"
    THEN expand_list(t, "Known", t.known, o, ord)
    ELSE IF live_pieces(t) = {}
    THEN {panicked(t)}
    ELSE UNION {expand_list(t, p, t.unknown[p].list, o, ord) : p \in live_pieces(t)}

\* Tree::expand: the set of possible outcomes [tree, er, panic].
Tree_expand(t, o, ord) ==
    IF t.kind # "None"
    THEN {Tree_expanded(out) : out \in TreeKind_expand(t, o, ord)}
    ELSE {Tree_expand_none(t, o, ord)}

\* An add_next_piece that takes the evaluation from the children whether or
\* not the TreeKind reported death.
added_on_death(t, is_death, panic) ==
    IF panic
    THEN [tree |-> t, is_death |-> is_death, panic |-> panic]
    ELSE [tree |-> [t EXCEPT !.evaluation =
                               discounted(TreeKind_evaluation(t).eval, t.raw_eval)],
          is_death |-> is_death,
          panic |-> ~TreeKind_evaluation(t).ok]

\* Lines 96-98 and the return of Tree::add_next_piece.
added(t, is_death, panic) ==
    IF panic \/ is_death
    THEN [tree |-> t, is_death |-> is_death, panic |-> panic]
    ELSE [tree |-> [t EXCEPT !.evaluation =
                               discounted(TreeKind_evaluation(t).eval, t.raw_eval)],
          is_death |-> FALSE,
          panic |-> ~TreeKind_evaluation(t).ok]

RECURSIVE retain(_, _, _)
RECURSIVE first_speculated(_, _)
\* retain_mut: the children from i on whose add_next_piece did not report death.
retain(children, rs, i) ==
    IF i > Len(children)
    THEN <<>>
    ELSE (IF rs[i].is_death
          THEN <<>>
          ELSE <<[children[i] EXCEPT !.tree = rs[i].tree]>>)
         \o retain(children, rs, i + 1)

\* Lines 345-348; rs[i] is the outcome of add_next_piece on child i.
retained(t, rs) ==
    added([t EXCEPT !.known = retain(t.known, rs, 1)],
          \A i \in 1..Len(rs) : rs[i].is_death,
          \E i \in 1..Len(rs) : rs[i].panic)

\* The first piece, in the order of the enum, that the Speculation has a
\* list for.
first_speculated(t, i) ==
    IF i >= Len(PieceOrder) \/ t.unknown[PieceOrder[i]].some
    THEN PieceOrder[i]
    ELSE first_speculated(t, i + 1)

\* A Speculation that turns Known with the list of its first piece, whatever
\* piece arrived.
collapsed_first(t, piece) ==
    IF ~t.unknown[piece].some
    THEN [tree |-> t, is_death |-> FALSE, panic |-> TRUE]
    ELSE added([t EXCEPT !.kind = "Known",
                         !.known = t.unknown[first_speculated(t, 1)].list,
                         !.unknown = NoSpeculation],
               t.unknown[first_speculated(t, 1)].list = <<>>,
               FALSE)

\* Lines 351-355; unwrapping a list that was never made is a panic.
collapsed(t, piece) ==
    IF ~t.unknown[piece].some
    THEN [tree |-> t, is_death |-> FALSE, panic |-> TRUE]
    ELSE added([t EXCEPT !.kind = "Known",
                         !.known = t.unknown[piece].list,
                         !.unknown = NoSpeculation],
               t.unknown[piece].list = <<>>,
               FALSE)

RECURSIVE Tree_add_next_piece(_, _)
\* Lines 92-102 on the node whose board already holds the piece.
add_to_kind(t, piece) ==
    IF t.kind = "None"
    THEN [tree |-> t, is_death |-> FALSE, panic |-> FALSE]
    ELSE IF t.kind = "Known"
    THEN retained(t, [i \in 1..Len(t.known) |->
                         Tree_add_next_piece(t.known[i].tree, piece)])
    ELSE collapsed(t, piece)

\* Tree::add_next_piece: [tree, is_death, panic].
Tree_add_next_piece(t, piece) ==
    add_to_kind([t EXCEPT !.board = add_next_piece(@, piece)], piece)

\* TreeKind::into_best_child, lines 286-295: [ok, child] or [ok, kind], the
\* kind being handed back as it was.
TreeKind_into_best_child(t) ==
    IF t.kind = "Known" /\ t.known # <<>>
    THEN [ok |-> TRUE, child |-> t.known[1]]
    ELSE [ok |-> FALSE, kind |-> t.kind, known |-> t.known, unknown |-> t.unknown]

\* An Err that hands the tree back without the kind taken out of it.
best_child_of_taken(t, r) ==
    IF r.ok
    THEN r
    ELSE [ok |-> FALSE,
          tree |-> [t EXCEPT !.kind = "None", !.known = <<>>,
                             !.unknown = NoSpeculation]]

\* Lines 64-71, on the outcome r of TreeKind::into_best_child.
best_child_of(t, r) ==
    IF r.ok
    THEN r
    ELSE [ok |-> FALSE,
          tree |-> [t EXCEPT !.kind = r.kind, !.known = r.known,
                             !.unknown = r.unknown]]

\* Tree::into_best_child: Ok(child) is [ok, child], Err(tree) is [ok, tree].
Tree_into_best_child(t) ==
    IF t.kind = "None"
    THEN [ok |-> FALSE, tree |-> t]
    ELSE best_child_of(t, TreeKind_into_best_child(t))

RECURSIVE Tree_get_plan(_)
\* TreeKind::get_plan, lines 297-305: what is pushed for the first child of
\* a Known list, then the plan of its tree.
TreeKind_get_plan(t) ==
    IF t.kind = "Known" /\ t.known # <<>>
    THEN <<[mv |-> t.known[1].mv, lock |-> t.known[1].lock]>>
         \o Tree_get_plan(t.known[1].tree)
    ELSE <<>>

\* Tree::get_plan: the pairs appended to `into`.
Tree_get_plan(t) == IF t.kind = "None" THEN <<>> ELSE TreeKind_get_plan(t)

-----------------------------------------------------------------------------
(* The games the tree is run on: a well between walls that reach above the
   spawn rows, a queue, a held piece and a bag.  The well is three columns
   wide (columns 3..5) or two (columns 4..5), where only O can spawn.
   Column 0 is empty and out of reach, so that no row is ever cleared and
   the walls stay as high as they are. *)

Walls(top) == Block(1..2, 0, top) \cup Block(6..9, 0, top)

with_queue(b, queue, held, bag) ==
    [b EXCEPT !.next_pieces = queue, !.hold_piece = held, !.bag = bag]

Well == MkBoard(Walls(21))

Shaft == MkBoard(Walls(21) \cup Block(3..3, 0, 21))

\* The well filled to row 17 with a hole in every row, at alternating sides.
TallWell ==
    MkBoard(Walls(21)
            \cup {c \in Block(3..5, 0, 17) :
                     c[1] # (IF c[2] % 2 = 0 THEN 3 ELSE 5)})

\* The shaft filled to row 17: one O fits, and nothing after it.
TallShaft == MkBoard(Walls(21) \cup Block(3..3, 0, 21) \cup Block(4..5, 0, 17))

Games ==
    {with_queue(Shaft, <<"O">>, "None", {"O", "S"}),
     with_queue(Shaft, <<"O", "O">>, "None", {"O", "S"}),
     with_queue(Well, <<"O">>, "None", {"O", "S"}),
     with_queue(Well, <<"O", "O">>, "None", {"O", "S"}),
     with_queue(Well, <<"S">>, "O", {"O", "S"}),
     with_queue(TallWell, <<"O", "O">>, "None", {"O", "S"}),
     with_queue(TallShaft, <<>>, "S", {"O"})}

\* The calls of extend and of add_next_piece made on the root, and the
\* number of nodes (the root's child_nodes) past which it is not extended.
MaxExtends == 3

MaxAdds == 1

MaxNodes == 6

-----------------------------------------------------------------------------
(* The tree as a state machine: one action per call of extend and of
   add_next_piece on the root. *)

\* What is remembered of the last call on the root: the operation, the piece
\* it added, the kind of the root before it, what it returned and, for an
\* extension, the selections it made.
NoCall ==
    [op |-> "new", piece |-> "None", was |-> "None", is_death |-> FALSE,
     panic |-> FALSE, path |-> <<>>, ret |-> <<>>]

\* The calls that end a run: the caller reads the plan, or commits to the
\* best child, which consumes the tree.
Reads == {"get_plan", "into_best_child"}

MovesIdle ==
    /\ board = EmptyBoard
    /\ spawned = NoPiece.piece
    /\ mode = "ZeroG"
    /\ locks = <<>>
    /\ checked = {}
    /\ check_queue = <<>>
    /\ popped = NoPlacement
    /\ enqueued = {}
    /\ pushes = 0
    /\ capped = FALSE
    /\ result = {}
    /\ pc = "tree"

TreeInit ==
    /\ MovesIdle
    /\ \E g \in Games : tree = starting_board(g)
    /\ opts \in [use_hold : BOOLEAN, speculate : BOOLEAN, mode : {"TwentyG"}]
    /\ hash_order \in IterationOrders
    /\ outcome = NoCall
    /\ extends = 0
    /\ adds = 0
    /\ died = FALSE

\* Tree::extend on the root.
Extend ==
    /\ pc = "tree"
    /\ ~outcome.panic
    /\ outcome.op \notin Reads
    /\ extends < MaxExtends
    /\ tree.child_nodes < MaxNodes
    /\ \E out \in Tree_expand(tree, opts, hash_order) :
          /\ tree' = IF out.panic THEN tree ELSE out.tree
          /\ outcome' = [op |-> "extend", piece |-> "None", was |-> tree.kind,
                         is_death |-> out.er.is_death, panic |-> out.panic,
                         path |-> out.path, ret |-> <<>>]
          /\ died' = (died \/ out.er.is_death)
    /\ extends' = extends + 1
    /\ UNCHANGED <<opts, hash_order, adds, movesVars>>

\* Tree::add_next_piece on the root, with a piece the bag can still deal.
AddNextPiece ==
    /\ pc = "tree"
    /\ ~outcome.panic
    /\ outcome.op \notin Reads
    /\ adds < MaxAdds
    /\ \E piece \in tree.board.bag :
          LET out == Tree_add_next_piece(tree, piece)
          IN /\ tree' = IF out.panic THEN tree ELSE out.tree
             /\ outcome' = [op |-> "add_next_piece", piece |-> piece,
                            was |-> tree.kind,
                            is_death |-> out.is_death, panic |-> out.panic,
                            path |-> <<>>, ret |-> <<>>]
             /\ died' = (died \/ out.is_death)
    /\ adds' = adds + 1
    /\ UNCHANGED <<opts, hash_order, extends, movesVars>>

\* Tree::into_best_child on the root: the tree is consumed; what is left is
\* the tree of the child returned, or the tree handed back in Err.
IntoBestChild ==
    /\ pc = "tree"
    /\ ~outcome.panic
    /\ outcome.op \notin Reads
    /\ outcome' = [op |-> "into_best_child", piece |-> "None", was |-> tree.kind,
                   is_death |-> FALSE, panic |-> FALSE, path |-> <<>>,
                   ret |-> Tree_into_best_child(tree)]
    /\ tree' = IF Tree_into_best_child(tree).ok
               THEN Tree_into_best_child(tree).child.tree
               ELSE Tree_into_best_child(tree).tree
    /\ UNCHANGED <<opts, hash_order, extends, adds, died, movesVars>>

\* Tree::get_plan on the root, into an empty vector.
GetPlan ==
    /\ pc = "tree"
    /\ ~outcome.panic
    /\ outcome.op \notin Reads
    /\ outcome' = [op |-> "get_plan", piece |-> "None", was |-> tree.kind,
                   is_death |-> FALSE, panic |-> FALSE, path |-> <<>>,
                   ret |-> Tree_get_plan(tree)]
    /\ UNCHANGED <<tree, opts, hash_order, extends, adds, died, movesVars>>

TreeNext == Extend \/ AddNextPiece \/ IntoBestChild \/ GetPlan

TreeSpec == TreeInit /\ [][TreeNext]_vars

-----------------------------------------------------------------------------
Init == MovesInit \/ TreeInit

Next == MovesNext \/ TreeNext

Spec == Init /\ [][Next]_vars

\* find_moves runs on one thread from call to return: each of its steps is
\* taken when it can be.  The fairness of an iteration is weak fairness with
\* ENABLED written out as the action's guard, the loop condition of line 64.
IterateFair ==
    \/ []<>(~(pc = "loop" /\ check_queue # <<>>))
    \/ []<><<FindMovesIterate>>_vars

MovesFairSpec ==
    /\ MovesSpec
    /\ WF_vars(FindMovesStart)
    /\ WF_vars(FindMovesReturn)
    /\ IterateFair

(***************************************************************************)
(* Properties of move generation.                                          *)
(***************************************************************************)
\* The set of the four cells a piece occupies, and the destination of a
\* placement: that set with the T-spin status.
Footprint(piece) == {cells(piece)[i] : i \in 1..4}

SameDestination(p, q) ==
    /\ Footprint(p) = Footprint(q)
    /\ p.tspin = q.tspin

Landing(s) == sonic_drop(s, board).piece

InBuffer(piece) == \A i \in 1..4 : cells(piece)[i][2] >= BufferRow

Recorded == collect(locks) \cup result

\* C1: no two placements of the returned result occupy the same four cells
\* with the same T-spin status.
C1_DistinctDestinations ==
    \A p, q \in result : SameDestination(p.location, q.location) => p = q

\* Two different searched states land on one destination and the result
\* nevertheless holds several placements.
C1_Witness ==
    /\ pc = "done"
    /\ Cardinality(result) > 1
    /\ \E a, c \in enqueued :
          a # c /\ SameDestination(Landing(a), Landing(c))

MaxReplay == 3

ReplaySeqs == UNION {[1..n -> PieceMovements] : n \in 0..MaxReplay}

RECURSIVE replay(_, _, _, _, _)
\* Plays ms[i..] from piece, charging the time of attempt (lines 166-182);
\* ok is FALSE as soon as an action does not apply.
replay(ms, i, piece, time, b) ==
    IF i > Len(ms)
    THEN [ok |-> TRUE, piece |-> piece, time |-> time]
    ELSE LET r == apply(ms[i], piece, b)
             t1 == IF ms[i] = "SonicDrop"
                   THEN time + 2 * (piece.y - r.piece.y)
                   ELSE time + 1
             t2 == IF i > 1 /\ ms[i - 1] = ms[i] THEN t1 + 1 ELSE t1
         IN IF r.ok
            THEN replay(ms, i + 1, r.piece, t2, b)
            ELSE [ok |-> FALSE, piece |-> piece, time |-> time]

Cheaper(ms, r, p) ==
    \/ r.time < p.inputs.time
    \/ r.time = p.inputs.time /\ Len(ms) < Len(p.inputs.movements)

\* C2: for every returned placement, no sequence of successfully applied
\* actions (here of at most MaxReplay actions) reaches the same destination
\* with less time, or with equal time and fewer actions.
C2_CheapestPath ==
    pc = "done" =>
        \A ms \in ReplaySeqs :
            LET r == replay(ms, 1, spawned, 0, board)
            IN r.ok =>
               \A p \in result :
                   SameDestination(Landing(r.piece), p.location)
                       => ~Cheaper(ms, r, p)

RECURSIVE reach(_, _, _, _)
\* The states reachable from frontier by at most k applied actions.
reach(b, frontier, seen, k) ==
    IF k = 0 \/ frontier = {}
    THEN seen
    ELSE LET nxt == {apply(i, s, b).piece : s \in frontier, i \in PieceMovements}
                        \ seen
         IN reach(b, nxt, seen \cup nxt, k - 1)

RECURSIVE closure(_, _, _)
\* The states reachable from frontier by any number of applied actions.
closure(b, frontier, seen) ==
    IF frontier = {}
    THEN seen
    ELSE LET nxt == {apply(i, s, b).piece : s \in frontier, i \in PieceMovements}
                        \ seen
         IN closure(b, nxt, seen \cup nxt)

Covered(s) ==
    \/ InBuffer(Landing(s))
    \/ \E p \in result : SameDestination(p.location, Landing(s))

RECURSIVE apply_all(_, _, _)
apply_all(ms, piece, b) ==
    IF ms = <<>>
    THEN piece
    ELSE apply_all(Tail(ms), apply(Head(ms), piece, b).piece, b)

\* C4: in every mode, playing a returned placement's movements from the spawn
\* state and then sonic-dropping ends exactly in its location, pose and
\* T-spin status alike.
C4_ReplayReachesLocation ==
    \A p \in result :
        Landing(apply_all(p.inputs.movements, spawned, board)) = p.location

\* A result holds a T-spin placement and one recorded through a held direction.
C4_Witness ==
    /\ pc = "done"
    /\ \E p \in result : p.location.tspin = "Full"
    /\ \E p \in result :
          \E i \in 1..Len(p.inputs.movements) - 1 :
              /\ p.inputs.movements[i] \in {"Left", "Right"}
              /\ p.inputs.movements[i + 1] = p.inputs.movements[i]

\* C5: the search terminates, and every state is pushed on the frontier at
\* most once: the pushes number as many as the distinct states pushed.
C5_TerminatesPushingOnce ==
    /\ [](pushes = Cardinality(enqueued))
    /\ <>(pc = "done")

\* A search ended after the frontier had held many states, some of them
\* reached again later and not pushed a second time.
C5_Witness ==
    /\ pc = "done"
    /\ pushes >= 20
    /\ \E s \in enqueued, i \in PieceMovements :
          LET r == apply(i, s, board)
          IN r.ok /\ r.piece \in enqueued

PoppedFull == popped # NoPlacement /\ is_full(popped.inputs.movements)

\* C6: no push is made on a full input list; every frontier entry and every
\* recorded placement holds at most 32 actions; a placement taken with a full
\* list is lock-checked and nothing is pushed from it.
C6_NeverOverflows ==
    /\ [](/\ pc # "panic"
          /\ \A i \in 1..Len(check_queue) :
                Len(check_queue[i].inputs.movements) <= InputCapacity
          /\ \A p \in Recorded : Len(p.inputs.movements) <= InputCapacity
          /\ (pc = "loop" /\ PoppedFull) =>
                \/ InBuffer(Landing(popped.location))
                \/ \E p \in Recorded :
                      SameDestination(p.location, Landing(popped.location)))
    /\ [][(pc' = "loop" /\ PoppedFull') =>
              (pushes' = pushes /\ checked' = checked)]_vars

\* The search took a placement whose input list was full.
C6_Witness == pc = "loop" /\ PoppedFull

-----------------------------------------------------------------------------
(* The nodes of the tree and the lists they hold. *)

\* The names of the lists of children a node holds: "Known" for the list of
\* TreeKind::Known, the piece for a list of the Speculation.
lists_of(t) ==
    IF t.kind = "Known"
    THEN {"Known"}
    ELSE IF t.kind = "Unknown"
    THEN {p \in Pieces : t.unknown[p].some}
    ELSE {}

list_at(t, which) == IF which = "Known" THEN t.known ELSE t.unknown[which].list

RECURSIVE nodes_of(_)
\* The node t and every node below it.
nodes_of(t) ==
    {t} \cup UNION {UNION {nodes_of(list_at(t, w)[i].tree) :
                              i \in 1..Len(list_at(t, w))} :
                       w \in lists_of(t)}

RECURSIVE count_lists(_, _)
count_lists(t, i) ==
    IF i > Len(PieceOrder)
    THEN 0
    ELSE Len(t.unknown[PieceOrder[i]].list) + count_lists(t, i + 1)

\* The children a node holds over all its lists.
total_children(t) ==
    IF t.kind = "Known" THEN Len(t.known)
    ELSE IF t.kind = "Unknown" THEN count_lists(t, 1)
    ELSE 0

\* The last step was a call that returned.
Returned == outcome.op # "new" /\ ~outcome.panic

-----------------------------------------------------------------------------
(* C7 *)

evaluation_from_children(n) ==
    /\ TreeKind_evaluation(n).ok
    /\ n.evaluation.aggressive
         = n.raw_eval.aggressive
           + trunc_div(TreeKind_evaluation(n).eval.aggressive * gamma[1], gamma[2])
    /\ n.evaluation.defensive
         = n.raw_eval.defensive
           + trunc_div(TreeKind_evaluation(n).eval.defensive * gamma[1], gamma[2])

\* C7: as long as no call of extend or add_next_piece has reported death,
\* every expanded node of the tree, Known or Speculative, has evaluation =
\* raw_eval + subtree evaluation * gamma_num / gamma_den, the subtree
\* evaluation being that of the children it holds now, and every node that
\* is not expanded has evaluation = raw_eval.
C7_EvaluationFromChildren ==
    (~died /\ ~outcome.panic) =>
        \A n \in nodes_of(tree) :
            IF n.kind = "None"
            THEN n.evaluation = n.raw_eval
            ELSE evaluation_from_children(n)

\* After extensions and an add_next_piece, none reporting death, the root is
\* Known over an expanded node and its evaluation is not its raw_eval.
C7_Witness ==
    /\ ~died /\ Returned
    /\ extends >= 2 /\ adds >= 1
    /\ tree.kind = "Known"
    /\ tree.evaluation # tree.raw_eval
    /\ \E n \in nodes_of(tree) : n # tree /\ n.kind # "None"

-----------------------------------------------------------------------------
(* C8 *)

\* add_next_piece(piece) on the Speculation n gives the Known node of the
\* list n held for piece.
collapses_to_list(n, piece) ==
    /\ Tree_add_next_piece(n, piece).tree.kind = "Known"
    /\ Tree_add_next_piece(n, piece).tree.known = n.unknown[piece].list

\* C8: add_next_piece(p) on a Speculative node makes it Known with exactly
\* the list it held for p, the same children in the same order, and none of
\* the children held for another piece: on every Speculative node of the
\* tree, and in the call on the root.
C8_CollapseKeepsList ==
    /\ [](\A n \in nodes_of(tree) :
             n.kind = "Unknown" =>
                 \A p \in lists_of(n) : collapses_to_list(n, p))
    /\ [][(outcome'.op = "add_next_piece" /\ adds' = adds + 1
           /\ ~outcome'.panic /\ tree.kind = "Unknown")
          => (tree'.kind = "Known"
              /\ tree'.known = tree.unknown[outcome'.piece].list)]_vars

\* The root was a Speculation and add_next_piece has made it Known over a
\* list that is not empty.
C8_Witness ==
    /\ outcome.op = "add_next_piece" /\ ~outcome.panic
    /\ outcome.was = "Unknown"
    /\ tree.kind = "Known"
    /\ tree.known # <<>>

-----------------------------------------------------------------------------
(* C9 *)

\* The next piece of the node's board cannot spawn.
cannot_spawn(n) ==
    /\ get_next_piece(n.board).ok
    /\ ~FallingPiece_spawn(advance_queue(n.board).piece,
                           advance_queue(n.board).board).some

RECURSIVE death_rule(_, _, _, _)
\* Tree::expand on node n returned is_death = d after the selections
\* path[i], path[i + 1], ...: a node that is not expanded and has its pieces
\* resolved reports death exactly when no child is generated for it, and an
\* expanded node exactly when the child it selected reported death and was
\* the only child it held.
death_rule(n, d, path, i) ==
    IF n.kind = "None"
    THEN /\ i > Len(path)
         /\ ~must_speculate(n, opts) =>
               /\ d <=> (new_children(n.board, opts, hash_order).children = <<>>)
               /\ cannot_spawn(n) => d
    ELSE IF i > Len(path)
    THEN d /\ total_children(n) = 0
    ELSE /\ path[i].which \in lists_of(n)
         /\ path[i].index \in 1..Len(list_at(n, path[i].which))
         /\ death_rule(sort_by_key(list_at(n, path[i].which))[path[i].index].tree,
                       path[i].died, path, i + 1)
         /\ d <=> (path[i].died /\ total_children(n) = 1)

\* The list `after` is the list `before` without its element at index.
without(before, after, index) ==
    /\ Len(after) = Len(before) - 1
    /\ \A j \in 1..Len(after) :
          after[j] = IF j < index THEN before[j] ELSE before[j + 1]

RECURSIVE removal_rule(_, _, _, _)
\* The node `pre` became `post` by the selections path[i], path[i + 1], ...:
\* a selected child that reported death is gone from its list, and no other.
removal_rule(pre, post, path, i) ==
    IF i > Len(path)
    THEN total_children(post) >= total_children(pre)
    ELSE /\ total_children(post)
              = total_children(pre) - (IF path[i].died THEN 1 ELSE 0)
         /\ IF path[i].died
            THEN without(sort_by_key(list_at(pre, path[i].which)),
                         list_at(post, path[i].which), path[i].index)
            ELSE /\ Len(list_at(post, path[i].which))
                       = Len(list_at(pre, path[i].which))
                 /\ removal_rule(
                        sort_by_key(list_at(pre, path[i].which))[path[i].index].tree,
                        list_at(post, path[i].which)[path[i].index].tree,
                        path, i + 1)

\* C9: in every call of extend, a selected child whose expansion reports
\* death is removed from its list; its parent reports death exactly when no
\* child remains (the list of a Known node is empty, every list of a
\* Speculation is empty or absent); a node that is not expanded and whose
\* pieces are resolved reports death exactly when no child is generated for
\* it, as when the next piece cannot spawn.
C9_DeathPropagates ==
    [][(outcome'.op = "extend" /\ extends' = extends + 1 /\ ~outcome'.panic)
       => /\ death_rule(tree, outcome'.is_death, outcome'.path, 1)
          /\ removal_rule(tree, tree', outcome'.path, 1)
          /\ (outcome'.is_death /\ tree'.kind # "None")
                => total_children(tree') = 0]_vars

\* An extension in which a selected child reported death and was removed
\* while its parent, still holding a child, did not.
C9_Witness ==
    /\ outcome.op = "extend" /\ ~outcome.panic /\ ~outcome.is_death
    /\ \E i \in 1..Len(outcome.path) : outcome.path[i].died
    /\ total_children(tree) > 0

-----------------------------------------------------------------------------
(* C10 *)

\* The kind k of a node may become k2, in a call of add_next_piece or not.
allowed(k, k2, adding) ==
    \/ k2 = k
    \/ k = "None" /\ k2 \in {"Known", "Unknown"}
    \/ k = "Unknown" /\ k2 = "Known" /\ adding

\* The list of `pre` that the list `which` of `post` comes from, in a call
\* that added `piece` ("None" in an extension).
list_before(pre, post, which, piece) ==
    IF pre.kind = post.kind
    THEN list_at(pre, which)
    ELSE IF pre.kind = "Unknown" /\ piece # "None" /\ pre.unknown[piece].some
    THEN pre.unknown[piece].list
    ELSE <<>>

RECURSIVE forward(_, _, _)
\* The node `pre` became `post`: its kind moved forward, so did the kind of
\* every child it still holds (a child is known by its hold flag and its
\* placement), and a child it did not hold before is not expanded.
forward(pre, post, piece) ==
    /\ allowed(pre.kind, post.kind, piece # "None")
    /\ \A w \in lists_of(post) :
          \A j \in 1..Len(list_at(post, w)) :
              IF \E i \in 1..Len(list_before(pre, post, w, piece)) :
                     /\ list_before(pre, post, w, piece)[i].hold = list_at(post, w)[j].hold
                     /\ list_before(pre, post, w, piece)[i].mv = list_at(post, w)[j].mv
              THEN \A i \in 1..Len(list_before(pre, post, w, piece)) :
                       (/\ list_before(pre, post, w, piece)[i].hold = list_at(post, w)[j].hold
                        /\ list_before(pre, post, w, piece)[i].mv = list_at(post, w)[j].mv)
                       => forward(list_before(pre, post, w, piece)[i].tree,
                                  list_at(post, w)[j].tree, piece)
              ELSE list_at(post, w)[j].tree.kind = "None"

\* C10: the expansion state of a node only moves forward.  A node is created
\* Unexpanded; the only changes are Unexpanded to Known, Unexpanded to
\* Speculative and Speculative to Known; a Known node never becomes
\* Speculative or Unexpanded; Speculative becomes Known only in a call of
\* add_next_piece (so at most once).
C10_ExpansionMovesForward ==
    [][(outcome'.op \in {"extend", "add_next_piece"} /\ ~outcome'.panic)
       => forward(tree, tree', outcome'.piece)]_vars

\* After extensions and an add_next_piece, the Known root holds a child
\* that is Known next to one that was never expanded.
C10_Witness ==
    /\ Returned /\ adds >= 1 /\ extends >= 2
    /\ tree.kind = "Known"
    /\ \E i \in 1..Len(tree.known) : tree.known[i].tree.kind = "Known"
    /\ \E i \in 1..Len(tree.known) : tree.known[i].tree.kind = "None"

-----------------------------------------------------------------------------
(* C11 *)

\* C11: into_best_child returns Ok exactly when the root is Known with at
\* least one child, and then the first child of the list; in every other
\* case (Unexpanded, Speculative, Known with an empty list) it returns Err
\* with the tree as it was: board, evaluations, counters, expansion state.
C11_BestChildOrTree ==
    [][outcome'.op = "into_best_child"
       => IF tree.kind = "Known" /\ Len(tree.known) >= 1
          THEN outcome'.ret.ok /\ outcome'.ret.child = tree.known[1]
          ELSE ~outcome'.ret.ok /\ outcome'.ret.tree = tree]_vars

\* into_best_child has handed back, in Err, a tree that was expanded: a
\* Speculation, or a Known node whose children have all died.
C11_Witness ==
    /\ outcome.op = "into_best_child"
    /\ ~outcome.ret.ok
    /\ outcome.was # "None"
    /\ tree.kind = outcome.was

-----------------------------------------------------------------------------
(* C12 *)

\* The child c ranks highest among the children of list.
ranks_highest(c, list) ==
    \A j \in 1..Len(list) : child_value(c) >= child_value(list[j])

RECURSIVE best_line(_, _, _)
\* From its k-th pair on, the plan follows, from node t down, children that
\* rank highest among their siblings.
best_line(t, plan, k) ==
    \/ k > Len(plan)
    \/ /\ t.kind = "Known"
       /\ \E i \in 1..Len(t.known) :
             /\ t.known[i].mv = plan[k].mv
             /\ t.known[i].lock = plan[k].lock
             /\ ranks_highest(t.known[i], t.known)
             /\ best_line(t.known[i].tree, plan, k + 1)

\* C12: after any sequence of extend and add_next_piece, the k-th pair
\* get_plan returns belongs to a child whose ranking value is the highest
\* among its current siblings, and into_best_child returns such a child.
C12_PlanFollowsBest ==
    [][/\ outcome'.op = "get_plan" => best_line(tree, outcome'.ret, 1)
       /\ (outcome'.op = "into_best_child" /\ outcome'.ret.ok)
             => ranks_highest(outcome'.ret.child, tree.known)]_vars

-----------------------------------------------------------------------------
(* C13 *)

\* No two children of the list have the same hold flag and placements on
\* the same cells with the same T-spin status.
distinct_children(list) ==
    \A i, j \in 1..Len(list) :
        (/\ list[i].hold = list[j].hold
         /\ SameDestination(list[i].mv.location, list[j].mv.location))
        => i = j

\* C13: in every reachable tree no list of children, the list of a Known
\* node or a list of a Speculation, holds two children with the same hold
\* flag whose placements have the same sorted cells and T-spin flag; child
\* removal, reordering and collapse preserve this.
C13_NoDuplicateChildren ==
    \A n \in nodes_of(tree) :
        \A w \in lists_of(n) : distinct_children(list_at(n, w))

\* After extensions that reordered the root's list, it holds placements of
\* the next piece and of the hold piece, several of one of them.
C13_Witness ==
    /\ Returned /\ extends >= 2
    /\ tree.kind = "Known"
    /\ \E i, j \in 1..Len(tree.known) :
          i # j /\ tree.known[i].hold /\ tree.known[j].hold
    /\ \E i \in 1..Len(tree.known) : ~tree.known[i].hold

-----------------------------------------------------------------------------
(* C14 *)

\* C14: no child whose lock result is locked out is ever in the tree: every
\* child of every reachable tree, placed from the queue or from the hold,
\* has lock.locked_out = FALSE.
C14_NoLockedOutChild ==
    \A n \in nodes_of(tree) :
        \A w \in lists_of(n) :
            \A i \in 1..Len(list_at(n, w)) : ~list_at(n, w)[i].lock.locked_out

RECURSIVE node_at(_, _, _)
\* The node the selections path[i], path[i + 1], ... lead to from t, in the
\* tree as an extension that removed no child has left it.
node_at(t, path, i) ==
    IF i > Len(path)
    THEN t
    ELSE node_at(list_at(t, path[i].which)[path[i].index].tree, path, i + 1)

\* A placement find_moves gives for the next piece of board b is locked out.
locks_out(b) ==
    /\ advance_queue(b).some
    /\ FallingPiece_spawn(advance_queue(b).piece, advance_queue(b).board).some
    /\ \E p \in find_moves(advance_queue(b).board,
                           FallingPiece_spawn(advance_queue(b).piece,
                                              advance_queue(b).board).piece,
                           opts.mode) :
          lock_piece(advance_queue(b).board, p.location).lock.locked_out

\* An extension has made a node Known over some children though one of the
\* placements found for its next piece is locked out.
C14_Witness ==
    /\ outcome.op = "extend" /\ ~outcome.panic /\ ~outcome.is_death
    /\ \A i \in 1..Len(outcome.path) : ~outcome.path[i].died
    /\ node_at(tree, outcome.path, 1).kind = "Known"
    /\ node_at(tree, outcome.path, 1).depth = 1
    /\ node_at(tree, outcome.path, 1).known # <<>>
    /\ locks_out(node_at(tree, outcome.path, 1).board)

-----------------------------------------------------------------------------
(* C15 *)

RECURSIVE reached(_, _, _)
\* The node the selections path[i], path[i + 1], ... lead to from t, in the
\* tree as it was before the extension: each list is sorted, then indexed.
reached(t, path, i) ==
    IF i > Len(path)
    THEN t
    ELSE reached(sort_by_key(list_at(t, path[i].which))[path[i].index].tree,
                 path, i + 1)

\* The extension that ends in the next state got to an unexpanded node.
ReachesUnexpanded ==
    /\ outcome'.op = "extend" /\ extends' = extends + 1
    /\ reached(tree, outcome'.path, 1).kind = "None"

\* The node the extension got to reported death.
reached_died(call) ==
    IF call.path = <<>>
    THEN call.is_death
    ELSE call.path[Len(call.path)].died

\* The node n is a Speculation with a list for each piece of poss, no other.
speculates_over(n, poss) ==
    /\ n.kind = "Unknown"
    /\ \A p \in Pieces : n.unknown[p].some <=> p \in poss

\* C15: whenever expand reaches an unexpanded node whose next piece is not
\* resolved and speculation is enabled, whatever the hold option, the node
\* becomes a Speculation with a list for every piece the hidden slot can
\* still be and for no other, or reports death when all those lists are
\* empty.
C15_SpeculatesOnHiddenNext ==
    [][(/\ ReachesUnexpanded
        /\ ~get_next_piece(reached(tree, outcome'.path, 1).board).ok
        /\ opts.speculate)
       => /\ ~outcome'.panic
          /\ \/ reached_died(outcome')
             \/ speculates_over(
                    node_at(tree', outcome'.path, 1),
                    get_next_piece(reached(tree, outcome'.path, 1).board).possibilities)]_vars

-----------------------------------------------------------------------------
(* C16 *)

\* Neither the next piece nor the hold piece of the node is resolved.
unresolved(n) ==
    ~get_next_piece(n.board).ok /\ n.board.hold_piece = "None"

\* C16: if expand reaches an unexpanded node for which both the next piece
\* and the hold piece are unresolved, the call halts on an assertion: it
\* returns no ExpandResult, reports no death, and the node is unexpanded
\* as before.
C16_HaltsWhenNothingKnown ==
    [][(ReachesUnexpanded /\ unresolved(reached(tree, outcome'.path, 1)))
       => /\ outcome'.panic
          /\ ~outcome'.is_death
          /\ died' = died
          /\ reached(tree', outcome'.path, 1).kind = "None"]_vars

\* An extension went down to a child with an empty queue and no hold piece
\* and halted there.
C16_Witness ==
    /\ outcome.op = "extend" /\ outcome.panic
    /\ outcome.path # <<>>
    /\ reached(tree, outcome.path, 1).kind = "None"
    /\ unresolved(reached(tree, outcome.path, 1))

-----------------------------------------------------------------------------
(* C17 *)

\* Both components of e are at least those of f.
dominates(e, f) ==
    e.aggressive >= f.aggressive /\ e.defensive >= f.defensive

\* C17 as stated: for every Known node of a reachable tree, each component
\* of the node's evaluation is at least that component of every child's
\* evaluation.
C17_NodeDominatesChildren ==
    \A n \in nodes_of(tree) :
        n.kind = "Known" =>
            \A i \in 1..Len(n.known) :
                dominates(n.evaluation, n.known[i].tree.evaluation)

\* C17 amended: for every Known node that holds a child, the subtree
\* evaluation best_eval gives is in each component at least every child's
\* evaluation and equal to some child's; the node's own evaluation is
\* raw_eval plus that, discounted, as long as no call has reported death.
C17_BestDominatesChildren ==
    \A n \in nodes_of(tree) :
        (n.kind = "Known" /\ n.known # <<>>) =>
            /\ best_eval(n.known).some
            /\ \A i \in 1..Len(n.known) :
                  dominates(best_eval(n.known).eval, n.known[i].tree.evaluation)
            /\ \E i \in 1..Len(n.known) :
                  best_eval(n.known).eval.aggressive
                      = n.known[i].tree.evaluation.aggressive
            /\ \E i \in 1..Len(n.known) :
                  best_eval(n.known).eval.defensive
                      = n.known[i].tree.evaluation.defensive
            /\ (~died /\ ~outcome.panic) =>
                  n.evaluation = discounted(best_eval(n.known).eval, n.raw_eval)

\* A Known node whose children differ in both components, no one child the
\* best in both, and whose own evaluation is below a child's.
C17_Witness ==
    /\ Returned /\ ~died
    /\ \E n \in nodes_of(tree) :
          /\ n.kind = "Known"
          /\ \E i, j \in 1..Len(n.known) :
                /\ n.known[i].tree.evaluation.aggressive
                       > n.known[j].tree.evaluation.aggressive
                /\ n.known[i].tree.evaluation.defensive
                       < n.known[j].tree.evaluation.defensive
          /\ \E i \in 1..Len(n.known) :
                ~dominates(n.evaluation, n.known[i].tree.evaluation)

-----------------------------------------------------------------------------
(* C18 *)

Columns(piece) == {c[1] : c \in Footprint(piece)}

Rows(piece) == {c[2] : c \in Footprint(piece)}

\* C18: on the empty ten-column board in ZeroG mode, the O piece at its spawn
\* position has exactly nine placements, one resting on the floor on each
\* pair of adjacent columns, and no placement takes less time than the one
\* straight under the spawn position.
C18_NinePlacementsOfO ==
    (pc = "done" /\ board = EmptyBoard /\ mode = "ZeroG" /\ spawned.kind.piece = "O")
        => /\ Cardinality(result) = 9
           /\ \A c \in 0..(BoardWidth - 2) :
                 \E p \in result :
                     /\ Columns(p.location) = {c, c + 1}
                     /\ Rows(p.location) = {0, 1}
                     /\ \A q \in result :
                           Columns(q.location) = {c, c + 1} => q = p
           /\ \A p, q \in result :
                 Columns(p.location) = Columns(spawned)
                     => p.inputs.time <= q.inputs.time

\* The search of the O piece on the empty board has returned; it reached the
\* floor in more poses than it returns placements, and some placement takes
\* longer than the straight drop.
C18_Witness ==
    /\ pc = "done" /\ board = EmptyBoard /\ mode = "ZeroG"
    /\ spawned = spawn_at("O", 19)
    /\ Cardinality({Landing(s) : s \in enqueued}) > Cardinality(result)
    /\ \E p, q \in result :
          /\ Columns(p.location) = Columns(spawned)
          /\ p.inputs.time < q.inputs.time

-----------------------------------------------------------------------------
(* C19 *)

Rotations == {"Cw", "Ccw", "Flip"}

KickCount == 22

turned(kind, d) ==
    CASE d = "Cw"   -> [kind EXCEPT !.rot = rotation_cw(@)]
      [] d = "Ccw"  -> [kind EXCEPT !.rot = rotation_ccw(@)]
      [] d = "Flip" -> [kind EXCEPT !.rot = rotation_flip(@)]

\* The piece turned in direction d and moved by the i-th offset of the table.
kicked(piece, d, i) ==
    [piece EXCEPT !.kind = turned(piece.kind, d),
                  !.x = piece.x + kicks(d)[i][1],
                  !.y = piece.y + kicks(d)[i][2]]

free_kicks(piece, b, d) ==
    {i \in 1..Len(kicks(d)) : ~obstructed(b, kicked(piece, d, i))}

rotation_rule(piece, b, d) ==
    /\ Len(kicks(d)) = KickCount
    /\ IF free_kicks(piece, b, d) = {}
       THEN /\ ~apply(d, piece, b).ok
            /\ apply(d, piece, b).piece = piece
       ELSE /\ apply(d, piece, b).ok
            /\ [apply(d, piece, b).piece EXCEPT !.tspin = "None"]
                   = [kicked(piece, d, MinOf(free_kicks(piece, b, d)))
                          EXCEPT !.tspin = "None"]

\* C19: a rotation in any of the three directions tries the 22 offsets of its
\* table in order and takes the first at which the turned piece is not
\* obstructed, returning true; when all are obstructed it returns false and
\* leaves the piece's kind, x, y and T-spin status as they were.  Checked on
\* every pose the search has rotated.
C19_RotationTakesFirstFreeKick ==
    pc = "done" =>
        \A s \in enqueued : \A d \in Rotations : rotation_rule(s, board, d)

\* The search rotated a pose whose rotation fails at all 22 offsets and a
\* pose whose rotation succeeds at an offset other than the first.
C19_Witness ==
    /\ pc = "done" /\ mode # "HardDropOnly"
    /\ \E s \in enqueued : \E d \in Rotations : free_kicks(s, board, d) = {}
    /\ \E s \in enqueued : \E d \in Rotations :
          /\ free_kicks(s, board, d) # {}
          /\ MinOf(free_kicks(s, board, d)) > 2

-----------------------------------------------------------------------------
(* C20 *)

lowered(piece, n) == [piece EXCEPT !.y = @ - n]

\* The least distance of a cell of the piece above the top of its column;
\* negative under an overhang.
clearance(piece, b) ==
    MinOf({c[2] - column_heights(b)[c[1] + 1] : c \in Footprint(piece)})

sonic_drop_rule(piece, b) ==
    /\ sonic_drop(piece, b).piece.kind = piece.kind
    /\ sonic_drop(piece, b).piece.x = piece.x
    /\ sonic_drop(piece, b).piece.y <= piece.y
    /\ \A n \in 0..(piece.y - sonic_drop(piece, b).piece.y) :
          ~obstructed(b, lowered(piece, n))
    /\ obstructed(b, lowered(sonic_drop(piece, b).piece, 1))
    /\ sonic_drop(piece, b).ok <=> (sonic_drop(piece, b).piece.y # piece.y)
    /\ ~sonic_drop(sonic_drop(piece, b).piece, b).ok
    /\ sonic_drop(sonic_drop(piece, b).piece, b).piece = sonic_drop(piece, b).piece

\* C20: sonic_drop of a piece that is not obstructed keeps its kind and x,
\* lowers it through free poses to the row from which one more step down is
\* obstructed, and returns true exactly when y changed; a second sonic_drop
\* returns false and changes nothing.  Checked on every pose the search has
\* reached.
C20_SonicDropToRest ==
    pc = "done" =>
        \A s \in enqueued : ~obstructed(board, s) => sonic_drop_rule(s, board)

\* The search reached a pose above the stack that falls, a pose under an
\* overhang that falls more than one row, and a pose that rests.
C20_Witness ==
    /\ pc = "done"
    /\ \E s \in enqueued :
          clearance(s, board) > 0 /\ sonic_drop(s, board).ok
    /\ \E s \in enqueued :
          /\ clearance(s, board) < 0
          /\ sonic_drop(s, board).piece.y < s.y - 1
    /\ \E s \in enqueued :
          /\ ~obstructed(board, s)
          /\ ~sonic_drop(s, board).ok

-----------------------------------------------------------------------------
(* C21 *)

\* The state the last iteration took from the frontier, at rest.
Rested == Landing(popped.location)

\* A placement on the destination of piece is recorded.
recorded_at(piece) ==
    \E p \in collect(locks) : SameDestination(p.location, piece)

Iterated == pc \in {"loop", "done"} /\ popped # NoPlacement

\* C21 as stated: a frontier state dropped to rest is recorded as a
\* placement if and only if one of its four cells is at or below row 23.
C21_RecordedIffCellAtOrBelow23 ==
    Iterated =>
        (recorded_at(Rested) <=> \E c \in Footprint(Rested) : c[2] <= 23)

\* C21 amended: a frontier state dropped to rest is recorded as a placement
\* if and only if one of its four cells is below row 23, that is at or
\* below row 22; a state resting with all its cells on row 23 or above is
\* discarded.
C21_RecordedIffCellBelow23 ==
    Iterated =>
        (recorded_at(Rested) <=> \E c \in Footprint(Rested) : c[2] < 23)

\* A state was discarded that rests with its lowest cell on row 23, after
\* one that was recorded with a cell on row 22.
C21_Witness ==
    /\ Iterated
    /\ \E c \in Footprint(Rested) : c[2] = 23
    /\ \A c \in Footprint(Rested) : c[2] >= 23
    /\ ~recorded_at(Rested)
    /\ \E p \in collect(locks) :
          \A c \in Footprint(p.location) : c[2] >= 22

-----------------------------------------------------------------------------
(* C22 *)

RECURSIVE charge(_, _, _, _, _)
\* The ticks of ms[i..] played from piece: two per row fallen for a sonic
\* drop, none for it when free is set, one for any other action, and one
\* more for an action equal to the one before it.
charge(ms, i, piece, b, free) ==
    IF i > Len(ms)
    THEN 0
    ELSE (IF ms[i] # "SonicDrop"
          THEN 1
          ELSE IF free
          THEN 0
          ELSE 2 * (piece.y - apply(ms[i], piece, b).piece.y))
         + (IF i > 1 /\ ms[i - 1] = ms[i] THEN 1 ELSE 0)
         + charge(ms, i + 1, apply(ms[i], piece, b).piece, b, free)

\* C22 as stated: in every mode, the time of a returned placement is the sum
\* over its recorded actions of 2 ticks per cell fallen for a sonic drop and
\* 1 tick for any other action, plus 1 tick for each action equal to the
\* recorded action before it.
C22_TimeIsSumOfCharges ==
    pc = "done" =>
        \A p \in result :
            p.inputs.time = charge(p.inputs.movements, 1, spawned, board, FALSE)

\* C22 amended: the same sum gives the time in every mode when the sonic
\* drops recorded in twenty-gravity mode, which stand for the forced drops,
\* are charged nothing.
C22_TimeIsSumOfChargesForcedFree ==
    pc = "done" =>
        \A p \in result :
            p.inputs.time = charge(p.inputs.movements, 1, spawned, board,
                                   mode = "TwentyG")

\* A result holds a slide of three cells in one held direction, and a
\* placement with a sonic drop that fell some rows before another action.
C22_Witness ==
    /\ pc = "done" /\ mode = "ZeroG"
    /\ \E p \in result :
          \E i \in 1..Len(p.inputs.movements) - 2 :
              /\ p.inputs.movements[i] \in {"Left", "Right"}
              /\ p.inputs.movements[i + 1] = p.inputs.movements[i]
              /\ p.inputs.movements[i + 2] = p.inputs.movements[i]
    /\ \E p \in result :
          \E i \in 1..Len(p.inputs.movements) - 1 :
              /\ p.inputs.movements[i] = "SonicDrop"
              /\ p.inputs.time > Len(p.inputs.movements) + 2

-----------------------------------------------------------------------------
(* C23 *)

\* The list holds shifts and rotations only.
undropped(ms) == \A i \in 1..Len(ms) : ms[i] # "SonicDrop"

\* The placement's location is where its movements, none of them a sonic
\* drop, take the spawned piece.
by_shifts_and_rotations(p) ==
    /\ undropped(p.inputs.movements)
    /\ p.location = apply_all(p.inputs.movements, spawned, board)

\* C23: in hard-drop-only mode nothing reached by a sonic-drop action is put
\* on the frontier: every frontier entry is reached from the spawn state by
\* its shifts and rotations, no returned placement has a SonicDrop among its
\* inputs, and every returned placement is the straight drop of a state
\* reached by shifts and rotations only.
C23_HardDropOnlyNeverDrops ==
    mode = "HardDropOnly" =>
        /\ \A i \in 1..Len(check_queue) : by_shifts_and_rotations(check_queue[i])
        /\ Iterated => by_shifts_and_rotations(popped)
        /\ \A p \in Recorded :
              /\ undropped(p.inputs.movements)
              /\ p.location
                     = Landing(apply_all(p.inputs.movements, spawned, board))

\* A hard-drop-only search has returned placements reached by shifts and
\* rotations, having met states by sonic drop that it left off the frontier.
C23_Witness ==
    /\ pc = "done" /\ mode = "HardDropOnly"
    /\ \E p \in result : Len(p.inputs.movements) >= 2
    /\ \E s \in enqueued :
          /\ sonic_drop(s, board).ok
          /\ sonic_drop(s, board).piece \in checked \ enqueued

-----------------------------------------------------------------------------
(* C24 *)

grounded(piece, b) == ~sonic_drop(piece, b).ok

RECURSIVE forced_drops(_, _, _, _)
\* Plays ms[i..] from the grounded piece under twenty gravity: each action
\* applies and is followed by the forced drop; a drop that moved the piece
\* has its SonicDrop next in the list, unless the action filled the list,
\* and no SonicDrop stands anywhere else.  Gives [ok, piece].
forced_drops(ms, i, piece, b) ==
    IF i > Len(ms)
    THEN [ok |-> TRUE, piece |-> piece]
    ELSE IF ms[i] = "SonicDrop" \/ ~apply(ms[i], piece, b).ok
    THEN [ok |-> FALSE, piece |-> piece]
    ELSE IF ~sonic_drop(apply(ms[i], piece, b).piece, b).ok
    THEN forced_drops(ms, i + 1, apply(ms[i], piece, b).piece, b)
    ELSE IF i < Len(ms) /\ ms[i + 1] = "SonicDrop"
    THEN forced_drops(ms, i + 2,
                      sonic_drop(apply(ms[i], piece, b).piece, b).piece, b)
    ELSE [ok |-> i = Len(ms) /\ is_full(ms),
          piece |-> sonic_drop(apply(ms[i], piece, b).piece, b).piece]

\* The frontier entry rests on the stack and its list records the forced
\* drops that led to it, after the SonicDrop of the spawn.
drops_recorded(p) ==
    /\ grounded(p.location, board)
    /\ p.inputs.movements # <<>>
    /\ p.inputs.movements[1] = "SonicDrop"
    /\ forced_drops(p.inputs.movements, 2, Landing(spawned), board).ok
    /\ forced_drops(p.inputs.movements, 2, Landing(spawned), board).piece
           = p.location

\* C24: in twenty-gravity mode every state on the frontier is grounded, and
\* wherever the forced drop after an action moved the piece a SonicDrop
\* stands directly after that action in the recorded list, except that the
\* drop after the action that filled the list is not recorded.
C24_TwentyGGroundedAndRecorded ==
    mode = "TwentyG" =>
        /\ \A i \in 1..Len(check_queue) : drops_recorded(check_queue[i])
        /\ Iterated => drops_recorded(popped)

\* A twenty-gravity search took from the frontier a state reached by two
\* actions in a row that did not fall and one that fell.
C24_Witness ==
    /\ mode = "TwentyG" /\ Iterated
    /\ \E i \in 2..Len(popped.inputs.movements) - 1 :
          /\ popped.inputs.movements[i] # "SonicDrop"
          /\ popped.inputs.movements[i + 1] = "SonicDrop"
    /\ \E i \in 2..Len(popped.inputs.movements) - 1 :
          /\ popped.inputs.movements[i] # "SonicDrop"
          /\ popped.inputs.movements[i + 1] # "SonicDrop"

-----------------------------------------------------------------------------
(* C25 *)

Axes == {"aggressive", "defensive"}

live_identities(n) == {p \in Pieces : n.unknown[p].some /\ n.unknown[p].list # <<>>}

dead_identities(n) == {p \in Pieces : n.unknown[p].some /\ n.unknown[p].list = <<>>}

\* The greatest value on the axis among the evaluations of the children.
greatest(list, axis) ==
    CHOOSE m \in {list[i].tree.evaluation[axis] : i \in 1..Len(list)} :
        \A i \in 1..Len(list) : m >= list[i].tree.evaluation[axis]

\* S: the sum over the live identities of their greatest value on the axis.
live_sum(n, axis) ==
    SumSeq([i \in 1..Len(PieceOrder) |->
               IF PieceOrder[i] \in live_identities(n)
               THEN greatest(n.unknown[PieceOrder[i]].list, axis)
               ELSE 0])

penalised_average(sum, live, dead) ==
    trunc_div(sum + dead * (trunc_div(sum, live) - 1000), live + dead)

\* C25: the subtree evaluation of a Speculative node with n >= 1 live and d
\* dead identities is on each axis (S + d * (S / n - 1000)) / (n + d), the
\* divisions truncating, S being the sum over the live identities of the
\* greatest value of their children on that axis; identities that were
\* never candidates count for nothing.
C25_SpeculativeAverage ==
    \A n \in nodes_of(tree) :
        (n.kind = "Unknown" /\ live_identities(n) # {}) =>
            /\ TreeKind_evaluation(n).ok
            /\ \A axis \in Axes :
                  TreeKind_evaluation(n).eval[axis]
                      = penalised_average(live_sum(n, axis),
                                          Cardinality(live_identities(n)),
                                          Cardinality(dead_identities(n)))

\* The tree holds a Speculative node with a live identity, an identity whose
\* children have all died, and an identity that was never a candidate.
C25_Witness ==
    /\ Returned
    /\ \E n \in nodes_of(tree) :
          /\ n.kind = "Unknown"
          /\ live_identities(n) # {}
          /\ dead_identities(n) # {}
          /\ n.evaluation = discounted(TreeKind_evaluation(n).eval, n.raw_eval)
          /\ \E p \in Pieces : ~n.unknown[p].some

-----------------------------------------------------------------------------
(* C26 *)

RECURSIVE descendants(_)
\* The number of nodes below t: its children in every list it holds, and
\* theirs.
descendants(t) ==
    SumSeq([i \in 1..Len(PieceOrder) |->
               IF t.kind = "Unknown" /\ t.unknown[PieceOrder[i]].some
               THEN SumSeq([j \in 1..Len(t.unknown[PieceOrder[i]].list) |->
                               1 + descendants(t.unknown[PieceOrder[i]].list[j].tree)])
               ELSE 0])
    + (IF t.kind = "Known"
       THEN SumSeq([j \in 1..Len(t.known) |-> 1 + descendants(t.known[j].tree)])
       ELSE 0)

\* C26: after any sequence of extend and add_next_piece calls, the
\* child_nodes counter of every node is the number of nodes now present
\* below it, dead children that were removed and lists dropped by a
\* collapse no longer counted.
C26_CounterIsSubtreeSize ==
    Returned => \A n \in nodes_of(tree) : n.child_nodes = descendants(n)

-----------------------------------------------------------------------------
(* C27 *)

\* The extension that ends in the next state got to an unexpanded node that
\* has to speculate, with the speculate option off.
ReachesSpeculationOff ==
    /\ ReachesUnexpanded
    /\ must_speculate(reached(tree, outcome'.path, 1), opts)
    /\ ~opts.speculate

\* The call returned without death or new nodes and the node is in the
\* tree as it was.
deferred ==
    /\ ~outcome'.panic
    /\ ~outcome'.is_death
    /\ \A i \in 1..Len(outcome'.path) : ~outcome'.path[i].died
    /\ tree'.child_nodes = tree.child_nodes
    /\ node_at(tree', outcome'.path, 1) = reached(tree, outcome'.path, 1)

\* C27: if expansion reaches an unexpanded node that requires speculation
\* (one at least of its next and hold pieces being resolved) while the
\* speculate option is off, the call reports is_death = false and no new
\* node, and the node stays unexpanded with its evaluation, depth and
\* child_nodes as they were, removed by no ancestor.
C27_DefersWhenSpeculationOff ==
    [][(ReachesSpeculationOff /\ ~unresolved(reached(tree, outcome'.path, 1)))
       => deferred]_vars

\* The same for the nodes on which the assertion of lines 164-168 holds.
C27_DefersPastAssertion ==
    [][(/\ ReachesSpeculationOff
        /\ ~assertion_fails(reached(tree, outcome'.path, 1), opts))
       => deferred]_vars

-----------------------------------------------------------------------------
(* C28 *)

\* The list s holds the children of list, the better ranked first.
sorted_descending(s, list) ==
    /\ Len(s) = Len(list)
    /\ {s[i] : i \in 1..Len(s)} = {list[i] : i \in 1..Len(list)}
    /\ \A i \in 1..Len(s) - 1 : child_value(s[i]) >= child_value(s[i + 1])

square(v) == v * v

\* The weights of the children of s are those of the claim, each at least 1,
\* and every child can be sampled; position i here is rank i - 1.
weighted_by_rank(s) ==
    /\ \A i \in 1..Len(s) :
          /\ weight(s, i)
                 = square(child_value(s[i]) - child_value(s[Len(s)])) \div i + 1
          /\ weight(s, i) >= 1
    /\ sampled(s) = 1..Len(s)

\* C28: in every selection over a list of children that is not empty, the
\* children are sorted by descending ranking value and the child of rank i
\* (0 the best) has weight (value_i - min_value)^2 / (i + 1) + 1, the
\* division truncating and min_value being the value of the last child;
\* every weight is at least 1, so the sampler can be built and every child,
\* the worst included, can be selected.
C28_WeightsByRank ==
    \A n \in nodes_of(tree) :
        \A w \in lists_of(n) :
            list_at(n, w) # <<>> =>
                /\ sorted_descending(sort_by_key(list_at(n, w)), list_at(n, w))
                /\ weighted_by_rank(sort_by_key(list_at(n, w)))

\* An extension selected the last child of a list of three or more whose
\* values differ, one of the weights having been truncated.
C28_Witness ==
    /\ outcome.op = "extend" /\ ~outcome.panic /\ outcome.path # <<>>
    /\ ~outcome.path[1].died
    /\ Len(list_at(tree, outcome.path[1].which)) >= 3
    /\ outcome.path[1].index = Len(list_at(tree, outcome.path[1].which))
    /\ \E n \in nodes_of(tree) :
          \E w \in lists_of(n) :
              \E i \in 2..Len(list_at(n, w)) :
                  /\ weight(sort_by_key(list_at(n, w)), i) > 1
                  /\ square(child_value(sort_by_key(list_at(n, w))[i])
                            - child_value(sort_by_key(list_at(n, w))
                                              [Len(list_at(n, w))])) % i # 0

-----------------------------------------------------------------------------
(* C29 *)

UnitShifts == {<<-1, 0>>, <<1, 0>>, <<0, 1>>, <<0, -1>>}

\* The piece moved by one cell in direction d.
nudged(piece, d) == [piece EXCEPT !.x = @ + d[1], !.y = @ + d[2]]

\* The state of the frontier entry carries the flag Full only after a
\* rotation as its last recorded action, with no unit shift free.
full_after_rotation(p) ==
    p.location.tspin = "Full" =>
        /\ p.inputs.movements # <<>>
        /\ p.inputs.movements[Len(p.inputs.movements)] \in Rotations
        /\ \A d \in UnitShifts : obstructed(board, nudged(p.location, d))

\* A shift or a sonic drop that succeeds from s leaves the flag None, and an
\* action that fails leaves the piece as it was.
moves_reset(s) ==
    \A a \in PieceMovements :
        IF apply(a, s, board).ok
        THEN a \notin Rotations => apply(a, s, board).piece.tspin = "None"
        ELSE apply(a, s, board).piece = s

\* C29: in every piece state reached from the spawn pose by attempted
\* actions, the T-spin flag is Full only if the last successful action was
\* a rotation and no unit shift (left, right, up, down) from the pose is
\* free; every shift that succeeds and every sonic drop that moves the
\* piece leaves the flag None.
C29_FullOnlyAfterImmobileRotation ==
    /\ spawned.tspin = "None"
    /\ \A i \in 1..Len(check_queue) : full_after_rotation(check_queue[i])
    /\ Iterated => (full_after_rotation(popped) /\ moves_reset(popped.location))

\* The search took from the frontier a state flagged Full, having also
\* reached a state at rest from which a rotation succeeds and leaves None.
C29_Witness ==
    /\ Iterated
    /\ popped.location.tspin = "Full"
    /\ \E s \in enqueued :
          /\ ~sonic_drop(s, board).ok
          /\ \E d \in Rotations :
                /\ apply(d, s, board).ok
                /\ apply(d, s, board).piece.tspin = "None"

-----------------------------------------------------------------------------
(* C30 *)

\* C30: death is absorbing: an extend that directly follows an extend that
\* returned true returns true as well and does not panic, whether the root
\* was left unexpanded, Known with an empty list, or Speculative with all
\* its lists empty.
C30_DeathIsAbsorbing ==
    [][(/\ outcome.op = "extend" /\ outcome.is_death /\ ~outcome.panic
        /\ outcome'.op = "extend")
       => (outcome'.is_death /\ ~outcome'.panic)]_vars

-----------------------------------------------------------------------------
(* C31 *)

\* The node has something to take an evaluation from: a Known list with a
\* child, or a Speculation with a list that is not empty.
evaluable(n) ==
    \/ n.kind = "Known" /\ n.known # <<>>
    \/ n.kind = "Unknown" /\ \E p \in Pieces : n.unknown[p].some /\ n.unknown[p].list # <<>>

RECURSIVE speculated_on(_, _)
\* Every Speculation the piece would collapse holds a list for it.
speculated_on(t, piece) ==
    IF t.kind = "Known"
    THEN \A i \in 1..Len(t.known) : speculated_on(t.known[i].tree, piece)
    ELSE IF t.kind = "Unknown"
    THEN t.unknown[piece].some
    ELSE TRUE

\* The halts of an extension that come before any evaluation is taken: the
\* choice among no live list on a Speculation, and on an unexpanded node the
\* assertion, the unwrap_err of a known piece and the unwraps of
\* new_children.
halts_unevaluated(n) ==
    \/ n.kind = "Unknown" /\ ~evaluable(n)
    \/ /\ n.kind = "None"
       /\ \/ assertion_fails(n, opts)
          \/ must_speculate(n, opts) /\ opts.speculate /\ possibilities_known(n.board)
          \/ \E p \in DOMAIN boards_of(n, opts) :
                new_children(boards_of(n, opts)[p], opts, hash_order).panic

\* The selections of the path before the first child that died.
survivors(path) ==
    SubSeq(path, 1,
           CHOOSE k \in 0..Len(path) :
               /\ \A i \in 1..k : ~path[i].died
               /\ k < Len(path) => path[k + 1].died)

\* The nodes of t, after the extension, whose evaluation the extension took
\* from their children: the expanded nodes on the path that did not report
\* death, the root being one if the call did not return true.
evaluated(t, call) ==
    {n \in {node_at(t, SubSeq(survivors(call.path), 1, k), 1) :
                k \in (IF call.is_death THEN 1 ELSE 0)..Len(survivors(call.path))} :
        n.kind # "None"}

\* C31: over the calls of extend and of add_next_piece whose piece every
\* Speculation it collapses has a list for, an evaluation is only taken
\* from a Known node with a child or a Speculation with a list that is not
\* empty: no call halts on the unwrap of the best child's evaluation or on
\* the division by the number of live lists, and every node whose
\* evaluation a call that returned has set is such a node.
C31_EvaluationNeverFails ==
    [][/\ (outcome'.op = "extend" /\ extends' = extends + 1)
          => IF outcome'.panic
             THEN halts_unevaluated(reached(tree, outcome'.path, 1))
             ELSE \A n \in evaluated(tree', outcome') : evaluable(n)
       /\ (/\ outcome'.op = "add_next_piece" /\ adds' = adds + 1
           /\ speculated_on(tree, outcome'.piece))
          => /\ ~outcome'.panic
             /\ ~outcome'.is_death
                => \A n \in nodes_of(tree') : n.kind # "None" => evaluable(n)]_vars

\* An extension after a piece was revealed removed a child that had died
\* and set the evaluation of its parent from the children left.
C31_Witness ==
    /\ outcome.op = "extend" /\ ~outcome.panic /\ ~outcome.is_death
    /\ adds = 1
    /\ \E i \in 1..Len(outcome.path) : outcome.path[i].died

-----------------------------------------------------------------------------
(* C32 *)

\* The children of the node, over all its lists, are unexpanded.
children_unexpanded(n) ==
    \A w \in lists_of(n) :
        \A j \in 1..Len(list_at(n, w)) :
            /\ list_at(n, w)[j].tree.kind = "None"
            /\ list_at(n, w)[j].tree.child_nodes = 0

RECURSIVE off_path_kept(_, _, _, _)
\* The node was before the extension and is after it, path[i], path[i + 1],
\* ... being the selections made below it.  The node the path ends in is the
\* only one that may have got children, and only if it was unexpanded.  Above
\* it, the list selected from is the list before in sorted order, without
\* the selected child if that died and with every other child as it was,
\* subtree included; the other lists of a Speculation are as they were.
off_path_kept(was, is, path, i) ==
    /\ is.board = was.board
    /\ is.raw_eval = was.raw_eval
    /\ IF i > Len(path)
       THEN IF was.kind = "None" /\ is.kind # "None"
            THEN children_unexpanded(is)
            ELSE is = was
       ELSE LET w == path[i].which
                index == path[i].index
                before == sort_by_key(list_at(was, w))
                after == list_at(is, w)
            IN /\ is.kind = was.kind
               /\ lists_of(is) = lists_of(was)
               /\ \A v \in lists_of(was) \ {w} : list_at(is, v) = list_at(was, v)
               /\ IF path[i].died
                  THEN /\ Len(after) = Len(before) - 1
                       /\ \A j \in 1..Len(after) :
                             after[j] = before[IF j < index THEN j ELSE j + 1]
                  ELSE /\ Len(after) = Len(before)
                       /\ \A j \in 1..Len(after) :
                             j # index => after[j] = before[j]
                       /\ after[index].mv = before[index].mv
                       /\ after[index].lock = before[index].lock
                       /\ off_path_kept(before[index].tree, after[index].tree,
                                        path, i + 1)

\* C32: an extend that returns gives children to at most one node, an
\* unexpanded node at the end of the path of its selections, and those
\* children are unexpanded; every subtree off that path is as it was
\* (board, raw_eval, evaluation, counters, expansion state), the lists it
\* selected from changing only in their order and by the removal of a child
\* on the path that died.
C32_OnlyThePathChanges ==
    [][(outcome'.op = "extend" /\ extends' = extends + 1 /\ ~outcome'.panic)
       => off_path_kept(tree, tree', outcome'.path, 1)]_vars

\* An extension gave children to an unexpanded child of the root while a
\* sibling of that child had a subtree of its own.
C32_Witness ==
    /\ outcome.op = "extend" /\ ~outcome.panic /\ ~outcome.is_death
    /\ Len(outcome.path) = 1 /\ ~outcome.path[1].died
    /\ node_at(tree, outcome.path, 1).depth = 1
    /\ node_at(tree, outcome.path, 1).kind # "None"
    /\ \E j \in 1..Len(list_at(tree, outcome.path[1].which)) :
          /\ j # outcome.path[1].index
          /\ list_at(tree, outcome.path[1].which)[j].tree.kind # "None"

====
